---- MODULE Spec2Model ----
(***************************************************************************)
(* Job engine of the jewelry scraper: ScraperController                    *)
(* (backend/scraper/controller.py) driven by the request surface           *)
(* (backend/api/app.py).                                                   *)
(*                                                                         *)
(* Execution model.  Every method of the controller is a coroutine; a      *)
(* task gives up control only at an `await`.  One action of this module    *)
(* is the code between two consecutive awaits of _execute_job, or one      *)
(* whole call of cancel_job / cleanup_jobs / start_job (which contain no   *)
(* await).  The executor is the ThreadPoolExecutor of the constructor: a   *)
(* FIFO work queue served by at most max_workers workers.                  *)
(*                                                                         *)
(* Collaborators.  The controller calls spider.run_async, _store_results,  *)
(* _validate_item, _clean_item, ProxyManager.release_proxy and             *)
(* ScraperMonitor.track_job_completion, whose bodies are not part of the   *)
(* sources; each is modelled by its outcome at the call site (it returns   *)
(* or raises), and the two cleanup calls are counted.  The controller      *)
(* uses get_proxy() as a plain call whose result is a handle carrying an   *)
(* address, or None; the pool behind it is ProxyManager.proxies.           *)
(*                                                                         *)
(* Time.  The clock counts ticks of one hour, the granularity of the       *)
(* retention window and of job_timeout; nothing else reads the clock.      *)
(***************************************************************************)
EXTENDS Integers, Sequences, FiniteSets, TLC

(***************************************************************************)
(* Bounds of the model                                                     *)
(***************************************************************************)
NumJobs == 3          \* job ids that exist
MaxSubmitted == 2     \* submit requests explored together with cancel and sweep
MaxTicks == 2         \* number of clock ticks explored
MaxYield == 1         \* largest number of records one worker run returns
NumProxies == 1       \* size of the configured proxy list
NumPoolHandles == 2   \* proxy list when the pool is exercised on its own
NumCallers == 2       \* concurrent tasks calling the pool / the limiter
MaxSuccess == 2       \* success reports explored per handle
MaxPoolTicks == 3     \* clock steps explored with the pool
WindowCapacity == 2   \* RateLimit.requests of every key (15, 20, 30 in the source)
MaxCalls == 3         \* calls of wait() explored per caller
MaxOutcomes == 1      \* calls of update_success_rate explored
MaxWindows == 2       \* limiter clock explored, in periods
MaxIdle == 2          \* idle seconds explored after the start of a period
NumImageTasks == 6    \* URLs handed to the image processor, over two calls
NumProducts == 2      \* product directories under the storage root
MaxBatch == 2         \* records of one run when a single job is followed
MaxFnTicks == 2       \* ticks of the clock the file names are stamped with
NumUrls == 2          \* URLs whose images are saved
window_size == 2      \* ScraperMonitor(window_size): length of the deques
MaxTracks == 4        \* track_job calls followed
NumTasks == 2         \* tasks started on the orchestrator
tokens == 2           \* TokenBucketRateLimiter(tokens, interval): capacity
bucket_interval == 2  \* and self.interval, in ticks

(***************************************************************************)
(* Configuration of the controller                                         *)
(***************************************************************************)
max_workers == 2      \* ScraperController(max_workers=...), default 3
max_retries == 2      \* ScraperController(max_retries=...), default 3
job_timeout == 3600   \* ScraperController(job_timeout=...), seconds
retention == 3600     \* cleanup_jobs: terminal jobs are kept one hour
TickSeconds == retention   \* seconds the clock advances per tick

JobIds == 1..NumJobs
Handles == 1..NumProxies
PoolHandles == 1..NumPoolHandles
AllHandles == Handles \cup PoolHandles
Callers == 1..NumCallers
NoTime == -1          \* Python's None for a datetime
None == 0             \* Python's None for a proxy handle / address
NoError == "None"     \* job.error = None

Terminal == {"completed", "failed", "cancelled"}
Statuses == {"pending", "running"} \cup Terminal

\* messages str(e) of the exceptions an attempt can end with
ErrNoneProxy == "'NoneType' object has no attribute 'address'"
ErrFetch == "spider.run_async raised"
ErrStore == "_store_results raised"
ErrTimeout == "Job timeout exceeded"
ErrUnsupported == "Unsupported platform"
ErrSetup == "spider constructor raised"

\* _get_spider_class: the platforms that have a spider
SupportedPlatforms == {"ebay", "amazon"}

NoResult == [op |-> "none", job |-> 0, ret |-> FALSE]

VARIABLES
    now,            \* wall clock, in ticks
    nextId,         \* number of jobs submitted so far
    active_jobs,    \* keys of ScraperController.active_jobs
    proxies,        \* ProxyManager.proxies (handles in the pool)
    queue,          \* work queue of the executor
    pc,             \* position of each job's task in _execute_job
    status, retry_count, items_scraped, error_count, error,
    proxy_used, start_time, max_items, platform,
    progress,       \* fields of ScrapingJob
    remaining,      \* records of `results` _process_results has not visited
    released,       \* calls of proxy_manager.release_proxy per job
    notified,       \* calls of monitor.track_job_completion per job
    attempts,       \* history: attempts of the retry loop begun per job
    last_exc,       \* history: message of the last exception an attempt raised
    cancel_req,     \* history: first job cancel_job was called on while pending/running
    result          \* value returned by the API call made in the last step

\* bookkeeping of one job's task
VARIABLES
    batch,          \* len(processed_results) of the current attempt
    stored,         \* history: records _store_results has persisted per job
    acquired        \* history: handles the job's task got from get_proxy

acct == <<batch, stored, acquired>>

jobFields == <<status, retry_count, items_scraped, error_count, error,
               proxy_used, start_time, max_items, platform, progress>>
hist == <<attempts, last_exc, cancel_req>>

\* state of the proxy pool (utils/proxy_manager.py, scraper/proxy_manager.py)
VARIABLES
    clock,          \* datetime.now() of the pool and the limiter, milliseconds
    success_count, fail_count, last_used,
    response_time,  \* fields of Proxy; response_time in tenths of a second
    handed,         \* handles some caller got from get_proxy and may report on
    gp_wake,        \* per caller: wake-up time of its sleep inside get_proxy
    pool_result     \* the pool call made in the last step and its outcome

\* state of one run of verify_proxies (scraper/proxy_manager.py)
VARIABLES
    v_pc,           \* "idle", "probing" (inside gather) or "done"
    v_tasks,        \* the handles a test_proxy task was created for
    v_res           \* per handle: result of its test_proxy task

verVars == <<v_pc, v_tasks, v_res>>

poolVars == <<success_count, fail_count, last_used, response_time, handed,
              gp_wake, pool_result, verVars>>

\* state of AdaptiveRateLimiter (utils/rate_limiter.py)
VARIABLES
    current_count, last_reset,  \* fields of the RateLimit of each key of limits
    last_request,   \* last_request[domain]; NoTime when the key is absent
    success_rate,   \* in thousandths
    w_pc, w_dom, w_wake, w_delay,   \* each caller's position inside wait()
    w_called,       \* history: time of the caller's current call of wait()
    w_calls,        \* history: calls of wait() made by each caller
    outcomes,       \* history: calls of update_success_rate
    returned,       \* history: per domain, the times at which wait() returned
    lim_result      \* the limiter event of the last step

limVars == <<current_count, last_reset, last_request, success_rate, w_pc,
             w_dom, w_wake, w_delay, w_called, w_calls, outcomes, returned,
             lim_result>>

\* state of ImageProcessor (utils/image_processor.py)
VARIABLES
    call_pc,        \* position of each process_images call
    call_out,       \* the list each call returned
    t_pc,           \* position of each _process_single_image task
    t_attempt,      \* `attempt` of the loop of _download_image
    t_stage,        \* history: stages (download, validate, optimize) passed
    t_res,          \* value the task returned
    sem_value,      \* self.semaphore._value
    sem_waiters     \* tasks suspended in self.semaphore.acquire(), in order

imgVars == <<call_pc, call_out, t_pc, t_attempt, t_stage, t_res,
             sem_value, sem_waiters>>

\* the storage root of ImageProcessor: <root>/<product>/<file>
VARIABLES
    fs_dirs,        \* product directories under the storage root
    fs_files,       \* files, as <<product, name>>
    fs_event        \* the file-system operation of the last step

fsVars == <<fs_dirs, fs_files, fs_event>>

\* the file names ImageProcessor derives for the images it saves
VARIABLES
    fn_time,        \* datetime.now() of the processor, in ticks
    fn_files,       \* files saved, as <<product, name>>
    fn_done,        \* history: the <<url, product>> pairs already processed
    fn_event        \* the save of the last step

fnVars == <<fn_time, fn_files, fn_done, fn_event>>

\* state of ScraperMonitor (scraper/monitor.py)
VARIABLES
    m_response_times, m_success_counts, m_error_counts, m_items_scraped,
    m_bandwidth_usage,  \* the deques of the monitor, oldest element first
    m_tracked,      \* history: number of track_job calls
    m_event         \* the call of the last step and what it returned

monVars == <<m_response_times, m_success_counts, m_error_counts,
             m_items_scraped, m_bandwidth_usage, m_tracked, m_event>>

\* tasks of ScrapingOrchestrator (scraper/orchestrator.py)
VARIABLES
    task_pc,        \* position of each _execute_task coroutine
    task_platform,  \* task.platform
    task_status,    \* task.status
    task_proxy,     \* the local `proxy` of _execute_task; Unbound before
                    \* its first assignment
    task_retry,     \* retry_count of _scrape_with_retries
    task_acquired,  \* history: handles the task got from get_proxy
    task_released,  \* history: release_proxy calls of the task
    task_cleaned,   \* history: _cleanup_task calls for the task
    task_escaped    \* an exception left _execute_task

orchVars == <<task_pc, task_platform, task_status, task_proxy, task_retry,
              task_acquired, task_released, task_cleaned, task_escaped>>

\* state of TokenBucketRateLimiter (utils/rate_limiter.py)
VARIABLES
    available_tokens,
    tb_age,         \* time.time() - self.last_updated, in ticks, capped at
                    \* interval (from there on the refill is complete)
    tb_pc,          \* per caller: "idle" or "sleeping" inside acquire
    tb_need,        \* the `tokens` argument of the caller's pending call
    tb_sleep,       \* ticks left of the caller's asyncio.sleep
    tb_event        \* what the last step did

tbVars == <<available_tokens, tb_age, tb_pc, tb_need, tb_sleep, tb_event>>

moreVars == <<fnVars, monVars, orchVars, tbVars>>

ext == <<clock, poolVars, limVars, imgVars, fsVars, moreVars>>
ctlRest == <<now, nextId, active_jobs, queue, pc, jobFields, remaining,
             released, notified, hist, result, acct>>
poolRest == <<ctlRest, limVars, imgVars, fsVars, verVars, moreVars>>
verRest == <<ctlRest, limVars, imgVars, fsVars, moreVars>>
limRest == <<proxies, ctlRest, poolVars, imgVars, fsVars, moreVars>>
imgRest == <<proxies, ctlRest, clock, poolVars, limVars, fsVars,
            moreVars>>
fsRest == <<proxies, ctlRest, clock, poolVars, limVars, imgVars, moreVars>>
oldVars == <<proxies, ctlRest, clock, poolVars, limVars, imgVars, fsVars>>
fnRest == <<oldVars, monVars, orchVars, tbVars>>
monRest == <<oldVars, fnVars, orchVars, tbVars>>
orchRest == <<ctlRest, clock, poolVars, limVars, imgVars, fsVars, fnVars,
             monVars, tbVars>>
tbRest == <<oldVars, fnVars, monVars, orchVars>>
vars == <<now, nextId, active_jobs, proxies, queue, pc, jobFields,
          remaining, released, notified, hist, result, acct, ext>>

----
(***************************************************************************)
(* Helpers                                                                 *)
(***************************************************************************)
Age(j) == (now - start_time[j]) * TickSeconds

Executing == {j \in JobIds : pc[j] \in {"ready", "run", "process", "store", "sleep"}}

\* variant: one task per submission, no worker limit
WorkerFree_unbounded == TRUE

\* ThreadPoolExecutor(max_workers): a worker is free
WorkerFree == Cardinality(Executing) < max_workers

\* while job.retry_count < self.max_retries
LoopCond(rc) == rc < max_retries

\* variant: the comparison is off by one
RetryExhausted_late(rc) == rc > max_retries

\* if job.retry_count >= self.max_retries: raise
RetryExhausted(rc) == rc >= max_retries

\* variant: no handler at the task boundary, the status is left as it was
HandlerStatus_uncaught(s) == s

\* outer `except Exception as e`: job.status = 'failed'
HandlerStatus(s) == "failed"

\* cancel_job: job and job.status == 'running'
Cancellable(j) == j \in active_jobs /\ status[j] = "running"

\* cleanup_jobs, first branch: terminal job older than the retention window
Expired(j) == status[j] \in Terminal /\ Age(j) > retention

\* variant: only jobs marked running are force-failed
Stuck_runningOnly(j) == status[j] = "running" /\ Age(j) > job_timeout

\* cleanup_jobs, elif branch: non-terminal job older than job_timeout
Stuck(j) == status[j] \notin Terminal /\ Age(j) > job_timeout

\* _cleanup_job: release the proxy if one is recorded, notify the monitor
ReleaseCount(n, pu) == IF pu # None THEN n + 1 ELSE n
NotifyCount(n) == n + 1

\* ProxyManager.get_proxy as the controller sees it: None when the pool is
\* empty or no handle passes the health / reuse-interval filter, else a handle
get_proxy == IF proxies = {} THEN {None} ELSE proxies \cup {None}

----
NoPoolResult == [op |-> "none", impl |-> "none", handle |-> None,
                 suspended |-> FALSE, raised |-> FALSE]

\* Proxy(...) as loaded: no history, never used
InitPoolFields ==
    /\ success_count = [h \in AllHandles |-> 0]
    /\ fail_count = [h \in AllHandles |-> 0]
    /\ last_used = [h \in AllHandles |-> NoTime]
    /\ handed = {}
    /\ gp_wake = [c \in Callers |-> NoTime]
    /\ pool_result = NoPoolResult
    /\ v_pc = "idle"
    /\ v_tasks = {}
    /\ v_res = [h \in AllHandles |-> "none"]

\* the limiter is called for these targets; 'etsy' has no entry in limits
Domains == {"ebay", "etsy"}
LimitKeys == {"default", "ebay", "amazon"}
NoLimResult == [op |-> "none", caller |-> 0, domain |-> "", waited |-> 0,
                window |-> FALSE]

\* AdaptiveRateLimiter.__init__
InitLimiter ==
    /\ current_count = [k \in LimitKeys |-> 0]
    /\ last_reset = [k \in LimitKeys |-> NoTime]
    /\ last_request = [d \in Domains |-> NoTime]
    /\ success_rate = 1000
    /\ w_pc = [c \in Callers |-> "idle"]
    /\ w_dom = [c \in Callers |-> "ebay"]
    /\ w_wake = [c \in Callers |-> NoTime]
    /\ w_delay = [c \in Callers |-> 0]
    /\ w_called = [c \in Callers |-> 0]
    /\ w_calls = [c \in Callers |-> 0]
    /\ outcomes = 0
    /\ returned = [d \in Domains |-> <<>>]
    /\ lim_result = NoLimResult

semaphore == 5            \* self.semaphore = asyncio.Semaphore(5)
download_attempts == 3    \* _download_image: for attempt in range(3)
return_exceptions == TRUE \* asyncio.gather(*tasks, return_exceptions=True)

\* the concurrent process_images calls on one processor, and the
\* _process_single_image tasks they create: the first half of the tasks
\* belongs to call 1, the rest to call 2
ImgCalls == {1, 2}
ImgTasks == 1..NumImageTasks
CallOf(u) == IF 2 * u <= NumImageTasks THEN 1 ELSE 2
TasksOf(c) == {u \in ImgTasks : CallOf(u) = c}
\* idx of enumerate(urls), counted from 0
Idx(u) == IF CallOf(u) = 1 THEN u - 1 ELSE u - 1 - (NumImageTasks \div 2)

NoImgResult == [success |-> FALSE, url |-> 0, is_primary |-> FALSE,
                error |-> "pending", raised |-> FALSE]

\* ImageProcessor.__init__
InitImages ==
    /\ call_pc = [c \in ImgCalls |-> "idle"]
    /\ call_out = [c \in ImgCalls |-> <<>>]
    /\ t_pc = [u \in ImgTasks |-> "none"]
    /\ t_attempt = [u \in ImgTasks |-> 0]
    /\ t_stage = [u \in ImgTasks |-> 0]
    /\ t_res = [u \in ImgTasks |-> NoImgResult]
    /\ sem_value = semaphore
    /\ sem_waiters = <<>>

\* product directories and the file names inside one of them
Products == 1..NumProducts
FileNames == {"a", "b"}
Paths == Products \X FileNames
NoFsEvent == [op |-> "none", active |-> {}, repeat |-> FALSE, deleted |-> 0,
              first |-> 0]

\* an empty storage root
InitFiles ==
    /\ fs_dirs = {}
    /\ fs_files = {}
    /\ fs_event = NoFsEvent

NoFnEvent == [op |-> "none", url |-> 0, product |-> 0, name |-> 0,
              again |-> FALSE]

InitNames ==
    /\ fn_time = 0
    /\ fn_files = {}
    /\ fn_done = {}
    /\ fn_event = NoFnEvent

NoMonEvent == [op |-> "none", success |-> 0, success_rate |-> <<0, 1>>,
               error_count |-> 0, raised |-> FALSE]

\* ScraperMonitor.__init__
InitMonitor ==
    /\ m_response_times = <<>>
    /\ m_success_counts = <<>>
    /\ m_error_counts = <<>>
    /\ m_items_scraped = <<>>
    /\ m_bandwidth_usage = <<>>
    /\ m_tracked = 0
    /\ m_event = NoMonEvent

Tasks == 1..NumTasks

\* a local variable that no statement has assigned yet
Unbound == -1

\* ScrapingOrchestrator.__init__: no task yet
InitTasks ==
    /\ task_pc = [t \in Tasks |-> "idle"]
    /\ task_platform = [t \in Tasks |-> ""]
    /\ task_status = [t \in Tasks |-> "none"]
    /\ task_proxy = [t \in Tasks |-> Unbound]
    /\ task_retry = [t \in Tasks |-> 0]
    /\ task_acquired = [t \in Tasks |-> 0]
    /\ task_released = [t \in Tasks |-> 0]
    /\ task_cleaned = [t \in Tasks |-> 0]
    /\ task_escaped = [t \in Tasks |-> FALSE]

NoTbEvent == [op |-> "none", caller |-> 0, n |-> 0]

\* TokenBucketRateLimiter.__init__
InitBucket ==
    /\ available_tokens = tokens
    /\ tb_age = 0
    /\ tb_pc = [c \in Callers |-> "idle"]
    /\ tb_need = [c \in Callers |-> 0]
    /\ tb_sleep = [c \in Callers |-> 0]
    /\ tb_event = NoTbEvent

InitMore == InitNames /\ InitMonitor /\ InitTasks /\ InitBucket

InitExt ==
    /\ clock = 0
    /\ InitPoolFields
    /\ response_time = [h \in AllHandles |-> 0]
    /\ InitLimiter
    /\ InitImages
    /\ InitFiles
    /\ InitMore

InitJobs ==
    /\ now = 0
    /\ nextId = 0
    /\ active_jobs = {}
    /\ queue = <<>>
    /\ pc = [j \in JobIds |-> "none"]
    /\ status = [j \in JobIds |-> "pending"]
    /\ retry_count = [j \in JobIds |-> 0]
    /\ items_scraped = [j \in JobIds |-> 0]
    /\ error_count = [j \in JobIds |-> 0]
    /\ error = [j \in JobIds |-> NoError]
    /\ proxy_used = [j \in JobIds |-> None]
    /\ start_time = [j \in JobIds |-> 0]
    /\ max_items = [j \in JobIds |-> 1]
    /\ platform = [j \in JobIds |-> "ebay"]
    /\ progress = [j \in JobIds |-> 0]
    /\ remaining = [j \in JobIds |-> 0]
    /\ released = [j \in JobIds |-> 0]
    /\ notified = [j \in JobIds |-> 0]
    /\ attempts = [j \in JobIds |-> 0]
    /\ last_exc = [j \in JobIds |-> NoError]
    /\ cancel_req = 0
    /\ result = NoResult
    /\ batch = [j \in JobIds |-> 0]
    /\ stored = [j \in JobIds |-> 0]
    /\ acquired = [j \in JobIds |-> 0]

Init ==
    /\ proxies \in SUBSET Handles
    /\ InitJobs
    /\ InitExt

\* the clock advances by one tick (an hour); a free worker takes queued work
\* and a started task reaches its first await well within a tick
Tick ==
    /\ now < MaxTicks
    /\ ~(queue # <<>> /\ WorkerFree)
    /\ \A j \in JobIds : pc[j] # "ready"
    /\ now' = now + 1
    /\ result' = NoResult
    /\ UNCHANGED <<nextId, active_jobs, proxies, queue, pc, jobFields,
                   remaining, released, notified, hist>>
    /\ UNCHANGED <<ext, acct>>

(***************************************************************************)
(* Request surface                                                         *)
(***************************************************************************)
\* start_job: the job is stored in the table and handed to the executor
start_job(p, m) ==
    LET j == nextId + 1 IN
    /\ j \in JobIds
    /\ nextId' = j
    /\ active_jobs' = active_jobs \cup {j}
    /\ queue' = Append(queue, j)
    /\ pc' = [pc EXCEPT ![j] = "queued"]
    /\ max_items' = [max_items EXCEPT ![j] = m]
    /\ platform' = [platform EXCEPT ![j] = p]
    /\ start_time' = [start_time EXCEPT ![j] = now]
    /\ result' = [op |-> "submit", job |-> j, ret |-> TRUE]
    /\ UNCHANGED <<now, proxies, status, retry_count, items_scraped,
                   error_count, error, proxy_used, progress, remaining,
                   released, notified, hist>>
    /\ UNCHANGED <<ext, acct>>

\* JSON bodies of POST /scrape: the keys present, and the values of
\* 'platform' and 'max_items' (the default of scrape() when the key is absent)
ReqKeys == {"query", "platform", "max_items"}
ReqPlatforms == {"ebay", "amazon", "etsy", ""}
ReqMaxItems == {-1, 0, 1, 200, 201}
DefaultPlatform == "ebay"
DefaultMaxItems == 50
MaxItemsCap == 200

Requests ==
    {r \in [keys : SUBSET ReqKeys, platform : ReqPlatforms,
            max_items : ReqMaxItems \cup {DefaultMaxItems}] :
        /\ "platform" \notin r.keys => r.platform = DefaultPlatform
        /\ IF "max_items" \in r.keys THEN r.max_items \in ReqMaxItems
           ELSE r.max_items = DefaultMaxItems}

\* `if platform := data.get('platform')`: the key is present and its value
\* is truthy (not the empty string)
TruthyPlatform(r) == "platform" \in r.keys /\ r.platform # ""

\* `if max_items := data.get('max_items')`: present and not 0
TruthyMaxItems(r) == "max_items" \in r.keys /\ r.max_items # 0

\* validate_scraping_request: the error message, or None
validate_scraping_request(r) ==
    IF "query" \notin r.keys THEN "Missing required field: query"
    ELSE IF TruthyPlatform(r) /\ r.platform \notin {"ebay", "amazon"}
         THEN "Invalid platform"
    ELSE IF TruthyMaxItems(r)
            /\ (r.max_items < 1 \/ r.max_items > MaxItemsCap)
         THEN "max_items must be between 1 and 200"
    ELSE NoError

\* POST /scrape: a request that fails validation is answered 400 and nothing
\* else happens; otherwise job_params is built and start_job is called
scrape(r) ==
    IF validate_scraping_request(r) # NoError
    THEN /\ result' = [op |-> "submit", job |-> 0, ret |-> FALSE]
         /\ UNCHANGED <<now, nextId, active_jobs, proxies, queue, pc,
                        jobFields, remaining, released, notified, hist, ext,
                        acct>>
    ELSE start_job(r.platform, r.max_items)

\* POST /scrape/cancel/<job_id>
cancel_job(j) ==
    /\ IF Cancellable(j)
       THEN /\ status' = [status EXCEPT ![j] = "cancelled"]
            /\ released' = [released EXCEPT ![j] = ReleaseCount(@, proxy_used[j])]
            /\ notified' = [notified EXCEPT ![j] = NotifyCount(@)]
            /\ result' = [op |-> "cancel", job |-> j, ret |-> TRUE]
       ELSE /\ result' = [op |-> "cancel", job |-> j, ret |-> FALSE]
            /\ UNCHANGED <<status, released, notified>>
    /\ cancel_req' = IF cancel_req = 0 /\ j \in active_jobs
                                        /\ status[j] \in {"pending", "running"}
                      THEN j ELSE cancel_req
    /\ UNCHANGED <<now, nextId, active_jobs, proxies, queue, pc, retry_count,
                   items_scraped, error_count, error, proxy_used, start_time,
                   max_items, platform, progress, remaining, attempts, last_exc>>
    /\ UNCHANGED <<ext, acct>>

\* GET /scrape/status/<job_id>: get_job_status reads the job table; ret is
\* FALSE for None, else the snapshot shows the fields of the job
get_job_status(j) ==
    /\ result' = [op |-> "status", job |-> j, ret |-> j \in active_jobs]
    /\ UNCHANGED <<now, nextId, active_jobs, proxies, queue, pc, jobFields,
                   remaining, released, notified, hist>>
    /\ UNCHANGED <<ext, acct>>

\* variant: a force-failed job is kept in the table
ToRemove_expired(j) == Expired(j)

\* cleanup_jobs: the jobs appended to to_remove
ToRemove(j) == Expired(j) \/ Stuck(j)

\* run_maintenance: one call of cleanup_jobs
cleanup_jobs ==
    LET to_remove == {j \in active_jobs : ToRemove(j)}
        stuck == {j \in active_jobs : Stuck(j)}
    IN
    /\ status' = [j \in JobIds |-> IF j \in stuck THEN "failed" ELSE status[j]]
    /\ error' = [j \in JobIds |-> IF j \in stuck THEN ErrTimeout ELSE error[j]]
    /\ released' = [j \in JobIds |-> IF j \in to_remove
                                     THEN ReleaseCount(released[j], proxy_used[j])
                                     ELSE released[j]]
    /\ notified' = [j \in JobIds |-> IF j \in to_remove
                                     THEN NotifyCount(notified[j])
                                     ELSE notified[j]]
    /\ active_jobs' = active_jobs \ to_remove
    /\ result' = [op |-> "sweep", job |-> 0, ret |-> TRUE]
    /\ UNCHANGED <<now, nextId, proxies, queue, pc, retry_count, items_scraped,
                   error_count, proxy_used, start_time, max_items, platform, progress, remaining,
                   hist>>
    /\ UNCHANGED <<ext, acct>>

(***************************************************************************)
(* The task of one job: _execute_job                                       *)
(***************************************************************************)
\* a free worker takes the oldest queued job; the task builds its spider
Dispatch(j) ==
    /\ queue # <<>>
    /\ j = Head(queue)
    /\ WorkerFree
    /\ queue' = Tail(queue)
    /\ pc' = [pc EXCEPT ![j] = "ready"]
    /\ result' = NoResult
    /\ UNCHANGED <<now, nextId, active_jobs, proxies, jobFields, remaining,
                   released, notified, hist>>
    /\ UNCHANGED <<ext, acct>>

\* except Exception as e (inner handler) followed, when the retries are
\* used up, by the outer handler and the finally clause; pu is job.proxy_used
AttemptFailed(j, msg, pu) ==
    LET rc == retry_count[j] + 1 IN
    /\ error_count' = [error_count EXCEPT ![j] = @ + 1]
    /\ retry_count' = [retry_count EXCEPT ![j] = rc]
    /\ error' = [error EXCEPT ![j] = msg]
    /\ last_exc' = [last_exc EXCEPT ![j] = msg]
    /\ IF RetryExhausted(rc)
       THEN /\ status' = [status EXCEPT ![j] = HandlerStatus(@)]
            /\ pc' = [pc EXCEPT ![j] = "done"]
            /\ released' = [released EXCEPT ![j] = ReleaseCount(@, pu)]
            /\ notified' = [notified EXCEPT ![j] = NotifyCount(@)]
       ELSE /\ pc' = [pc EXCEPT ![j] = "sleep"]
            /\ UNCHANGED <<status, released, notified>>

\* the code before the loop raises: _get_spider_class for a platform without
\* a spider, or the spider's constructor; outer handler, then finally
SetupRaises(j) ==
    LET msg == IF platform[j] \in SupportedPlatforms THEN ErrSetup
               ELSE ErrUnsupported IN
    /\ pc[j] = "ready"
    /\ status' = [status EXCEPT ![j] = HandlerStatus(@)]
    /\ error' = [error EXCEPT ![j] = msg]
    /\ last_exc' = [last_exc EXCEPT ![j] = msg]
    /\ pc' = [pc EXCEPT ![j] = "done"]
    /\ released' = [released EXCEPT ![j] = ReleaseCount(@, proxy_used[j])]
    /\ notified' = [notified EXCEPT ![j] = NotifyCount(@)]
    /\ result' = NoResult
    /\ UNCHANGED <<now, nextId, active_jobs, proxies, queue, retry_count,
                   items_scraped, error_count, proxy_used, start_time,
                   max_items, platform, progress, remaining, attempts,
                   cancel_req>>
    /\ UNCHANGED <<ext, acct>>

\* top of the while loop, up to `await spider.run_async(proxy=proxy)`
BeginAttempt(j) ==
    /\ pc[j] \in {"ready", "sleep"}
    /\ platform[j] \in SupportedPlatforms
    /\ result' = NoResult
    /\ IF LoopCond(retry_count[j])
       THEN /\ attempts' = [attempts EXCEPT ![j] = @ + 1]
            /\ \E p \in get_proxy :
                 IF p = None
                 THEN /\ AttemptFailed(j, ErrNoneProxy, proxy_used[j])
                      /\ UNCHANGED <<proxy_used, acquired>>
                 ELSE /\ proxy_used' = [proxy_used EXCEPT ![j] = p]
                      /\ acquired' = [acquired EXCEPT ![j] = @ + 1]
                      /\ pc' = [pc EXCEPT ![j] = "run"]
                      /\ UNCHANGED <<status, retry_count, error_count, error,
                                     released, notified, last_exc>>
       ELSE \* the loop ends without a result: finally clause only
            /\ pc' = [pc EXCEPT ![j] = "done"]
            /\ released' = [released EXCEPT ![j] = ReleaseCount(@, proxy_used[j])]
            /\ notified' = [notified EXCEPT ![j] = NotifyCount(@)]
            /\ UNCHANGED <<status, retry_count, error_count, error, proxy_used,
                           attempts, last_exc, acquired>>
    /\ UNCHANGED <<now, nextId, active_jobs, proxies, queue, items_scraped,
                   start_time, max_items, platform, progress, remaining, cancel_req>>
    /\ UNCHANGED <<ext, batch, stored>>

\* spider.run_async returns n records (the spider stops at max_items);
\* cap bounds the runs explored
RunReturnsUpTo(j, cap) ==
    /\ pc[j] = "run"
    /\ \E n \in 0..max_items[j] :
         /\ n <= cap
         /\ remaining' = [remaining EXCEPT ![j] = n]
         /\ pc' = [pc EXCEPT ![j] = IF n = 0 THEN "store" ELSE "process"]
    /\ batch' = [batch EXCEPT ![j] = 0]
    /\ result' = NoResult
    /\ UNCHANGED <<now, nextId, active_jobs, proxies, queue, jobFields,
                   released, notified, hist>>
    /\ UNCHANGED <<ext, stored, acquired>>

RunReturns(j) == RunReturnsUpTo(j, MaxYield)

\* spider.run_async raises
RunRaises(j) ==
    /\ pc[j] = "run"
    /\ AttemptFailed(j, ErrFetch, proxy_used[j])
    /\ result' = NoResult
    /\ UNCHANGED <<now, nextId, active_jobs, proxies, queue, items_scraped,
                   proxy_used, start_time, max_items, platform, progress, remaining, attempts,
                   cancel_req>>
    /\ UNCHANGED <<ext, acct>>

\* variant: a record that fails is not counted against the job
ItemErrors_silent(n, outcome) == n

\* except Exception: job.error_count += 1
ItemErrors(n, outcome) == IF outcome = "error" THEN n + 1 ELSE n

\* processed_results.append(cleaned_item); job.items_scraped += 1
ItemsDone(n, outcome) == IF outcome = "ok" THEN n + 1 ELSE n

\* _process_results: one iteration of `for item in results`
ProcessItem(j) ==
    /\ pc[j] = "process"
    /\ remaining[j] > 0
    /\ \E outcome \in {"ok", "invalid", "error"} :
         /\ items_scraped' = [items_scraped EXCEPT ![j] = ItemsDone(@, outcome)]
         /\ batch' = [batch EXCEPT ![j] = ItemsDone(@, outcome)]
         /\ error_count' = [error_count EXCEPT ![j] = ItemErrors(@, outcome)]
         /\ result' = [op |-> "item_" \o outcome, job |-> j, ret |-> TRUE]
    /\ remaining' = [remaining EXCEPT ![j] = @ - 1]
    /\ pc' = [pc EXCEPT ![j] = IF remaining[j] = 1 THEN "store" ELSE "process"]
    /\ UNCHANGED <<now, nextId, active_jobs, proxies, queue, status,
                   retry_count, error, proxy_used, start_time, max_items, platform, progress,
                   released, notified, hist>>
    /\ UNCHANGED <<ext, stored, acquired>>

\* _store_results returns: the job is completed, then the finally clause
StoreReturns(j) ==
    /\ pc[j] = "store"
    /\ status' = [status EXCEPT ![j] = "completed"]
    /\ pc' = [pc EXCEPT ![j] = "done"]
    /\ released' = [released EXCEPT ![j] = ReleaseCount(@, proxy_used[j])]
    /\ notified' = [notified EXCEPT ![j] = NotifyCount(@)]
    /\ stored' = [stored EXCEPT ![j] = @ + batch[j]]
    /\ result' = NoResult
    /\ UNCHANGED <<now, nextId, active_jobs, proxies, queue, retry_count,
                   items_scraped, error_count, error, proxy_used, start_time,
                   max_items, platform, progress, remaining, hist>>
    /\ UNCHANGED <<ext, batch, acquired>>

\* _store_results raises
StoreRaises(j) ==
    /\ pc[j] = "store"
    /\ AttemptFailed(j, ErrStore, proxy_used[j])
    /\ result' = NoResult
    /\ UNCHANGED <<now, nextId, active_jobs, proxies, queue, items_scraped,
                   proxy_used, start_time, max_items, platform, progress, remaining, attempts,
                   cancel_req>>
    /\ UNCHANGED <<ext, acct>>

Next ==
    \/ Tick
    \/ \E m \in 1..MaxYield : nextId < MaxSubmitted /\ start_job("ebay", m)
    \/ \E j \in 1..(MaxSubmitted + 1) : cancel_job(j)
    \/ cleanup_jobs
    \/ \E j \in JobIds : Dispatch(j)
    \/ \E j \in JobIds : SetupRaises(j)
    \/ \E j \in JobIds : BeginAttempt(j)
    \/ \E j \in JobIds : RunReturns(j)
    \/ \E j \in JobIds : RunRaises(j)
    \/ \E j \in JobIds : ProcessItem(j)
    \/ \E j \in JobIds : StoreReturns(j)
    \/ \E j \in JobIds : StoreRaises(j)

Spec == Init /\ [][Next]_vars

\* one job's task on its own, with runs of several records
NextItems ==
    \/ \E m \in 1..MaxBatch : nextId < 1 /\ start_job("ebay", m)
    \/ \E j \in JobIds : Dispatch(j)
    \/ \E j \in JobIds : BeginAttempt(j)
    \/ \E j \in JobIds : RunReturnsUpTo(j, MaxBatch)
    \/ \E j \in JobIds : RunRaises(j)
    \/ \E j \in JobIds : ProcessItem(j)
    \/ \E j \in JobIds : StoreReturns(j)
    \/ \E j \in JobIds : StoreRaises(j)

SpecItems == Init /\ [][NextItems]_vars

\* jobs running while the maintenance loop keeps calling cleanup_jobs
NextSweep ==
    \/ Tick
    \/ \E m \in 1..MaxYield : nextId < MaxSubmitted /\ start_job("ebay", m)
    \/ cleanup_jobs
    \/ \E j \in JobIds : Dispatch(j)
    \/ \E j \in JobIds : SetupRaises(j)
    \/ \E j \in JobIds : BeginAttempt(j)
    \/ \E j \in JobIds : RunReturns(j)
    \/ \E j \in JobIds : RunRaises(j)
    \/ \E j \in JobIds : ProcessItem(j)
    \/ \E j \in JobIds : StoreReturns(j)
    \/ \E j \in JobIds : StoreRaises(j)

SpecSweep == Init /\ [][NextSweep]_vars /\ WF_vars(cleanup_jobs)

\* the same, with clients that poll the status of jobs
NextStatus ==
    \/ NextSweep
    \/ \E j \in JobIds : get_job_status(j)

SpecStatus == Init /\ [][NextStatus]_vars

\* the executor under load: every job id is submitted, no cancel, no sweep
NextPool ==
    \/ \E m \in 1..MaxYield : start_job("ebay", m)
    \/ \E j \in JobIds : Dispatch(j)
    \/ \E j \in JobIds : SetupRaises(j)
    \/ \E j \in JobIds : BeginAttempt(j)
    \/ \E j \in JobIds : RunReturns(j)
    \/ \E j \in JobIds : RunRaises(j)
    \/ \E j \in JobIds : ProcessItem(j)
    \/ \E j \in JobIds : StoreReturns(j)
    \/ \E j \in JobIds : StoreRaises(j)

SpecPool == Init /\ [][NextPool]_vars

\* the request surface fed with arbitrary bodies, and the tasks of the jobs
\* it creates
NextSubmit ==
    \/ \E r \in Requests : nextId < MaxSubmitted /\ scrape(r)
    \/ \E j \in JobIds : Dispatch(j)
    \/ \E j \in JobIds : SetupRaises(j)
    \/ \E j \in JobIds : BeginAttempt(j)
    \/ \E j \in JobIds : RunReturns(j)
    \/ \E j \in JobIds : RunRaises(j)
    \/ \E j \in JobIds : ProcessItem(j)
    \/ \E j \in JobIds : StoreReturns(j)
    \/ \E j \in JobIds : StoreRaises(j)

SpecSubmit == Init /\ [][NextSubmit]_vars

----
(***************************************************************************)
(* Proxy pool.  ProxyManager of utils/proxy_manager.py is the pool the     *)
(* controller constructs; scraper/proxy_manager.py holds a second class of *)
(* the same name and shape whose get_proxy differs.  Both keep the list    *)
(* self.proxies in the order of the configuration file and only ever       *)
(* delete from it, so the list is the set `proxies` in ascending order of  *)
(* handle.  Rationals are pairs <<numerator, denominator>>.                *)
(***************************************************************************)
min_health_score == <<3, 10>>    \* 0.3
max_consecutive_fails == 3
rotation_delay == 30000          \* timedelta(seconds=30)
min_delay == 5000                \* scraper/proxy_manager.py: seconds between reuse
scraper_floor == <<2, 10>>       \* scraper/proxy_manager.py: health_score < 0.2
RespTimes == {0, 5}              \* response_time values loaded from the file

RatGE(a, b) == a[1] * b[2] >= b[1] * a[2]
RatLT(a, b) == ~RatGE(a, b)

\* variant: the share of failures instead of the share of successes
Health_failures(s, f) == IF s + f = 0 THEN <<1, 2>> ELSE <<f, s + f>>

\* Proxy.health_score for s successes and f failures
Health(s, f) == IF s + f = 0 THEN <<1, 2>> ELSE <<s, s + f>>
health_score(h) == Health(success_count[h], fail_count[h])

\* variant: the reuse interval is not looked at
Rested_always(lu, h, interval) == TRUE

\* not p.last_used or now - p.last_used > interval, for last-used times lu
Rested(lu, h, interval) == lu[h] = NoTime \/ clock - lu[h] > interval

\* get_proxy (utils): the filtered list
available(lu) ==
    {p \in proxies : /\ RatGE(health_score(p), min_health_score)
                     /\ Rested(lu, p, rotation_delay)}

\* key of max(): health_score / (response_time + 0.1)
Key(h) == <<health_score(h)[1] * 10, health_score(h)[2] * (response_time[h] + 1)>>

\* max(available, key=...): the first element of the list with the largest key
best(S) ==
    CHOOSE p \in S : \A q \in S :
        IF RatGE(Key(q), Key(p)) /\ RatGE(Key(p), Key(q)) THEN p <= q
        ELSE RatGE(Key(p), Key(q))

\* body of get_proxy (utils) run with last-used times lu
GetProxy(op, lu) ==
    LET h == IF proxies = {} \/ available(lu) = {} THEN None
             ELSE best(available(lu)) IN
    /\ last_used' = IF h = None THEN lu ELSE [lu EXCEPT ![h] = clock]
    /\ handed' = IF h = None THEN handed ELSE handed \cup {h}
    /\ pool_result' = [op |-> op, impl |-> "utils", handle |-> h,
                       suspended |-> FALSE, raised |-> FALSE]
    /\ UNCHANGED <<clock, proxies, success_count, fail_count, response_time,
                   gp_wake, poolRest>>

ProxyManager_get_proxy == GetProxy("get_proxy", last_used)

\* rotate_proxy(current): stamp the current handle, then get_proxy
rotate_proxy(cur) ==
    /\ cur \in handed \cup {None}
    /\ GetProxy("rotate_proxy",
                IF cur = None THEN last_used
                ELSE [last_used EXCEPT ![cur] = clock])

\* variant: a success clears the failures counted so far
report_success_reset(h) ==
    /\ h \in handed
    /\ success_count[h] < MaxSuccess
    /\ success_count' = [success_count EXCEPT ![h] = @ + 1]
    /\ fail_count' = [fail_count EXCEPT ![h] = 0]
    /\ last_used' = [last_used EXCEPT ![h] = clock]
    /\ pool_result' = [op |-> "report_success", impl |-> "utils", handle |-> h,
                       suspended |-> FALSE, raised |-> FALSE]
    /\ UNCHANGED <<clock, proxies, response_time, handed, gp_wake, poolRest>>

\* report_success (utils)
report_success(h) ==
    /\ h \in handed
    /\ success_count[h] < MaxSuccess
    /\ success_count' = [success_count EXCEPT ![h] = @ + 1]
    /\ last_used' = [last_used EXCEPT ![h] = clock]
    /\ pool_result' = [op |-> "report_success", impl |-> "utils", handle |-> h,
                       suspended |-> FALSE, raised |-> FALSE]
    /\ UNCHANGED <<clock, proxies, fail_count, response_time, handed, gp_wake,
                   poolRest>>

\* variant: the ceiling is compared with > instead of >=
Evict_late(s, f) ==
    f > max_consecutive_fails \/ RatLT(Health(s, f), min_health_score)

\* report_failure: the removal condition, on the counts after the increment
Evict(s, f) ==
    f >= max_consecutive_fails \/ RatLT(Health(s, f), min_health_score)

\* report_failure; list.remove raises ValueError when the handle is not in
\* the list any more
report_failure(h) ==
    LET f == fail_count[h] + 1 IN
    /\ h \in handed
    /\ fail_count[h] <= max_consecutive_fails
    /\ fail_count' = [fail_count EXCEPT ![h] = f]
    /\ proxies' = IF Evict(success_count[h], f) THEN proxies \ {h} ELSE proxies
    /\ pool_result' = [op |-> "report_failure", impl |-> "utils", handle |-> h,
                       suspended |-> FALSE,
                       raised |-> (Evict(success_count[h], f) /\ h \notin proxies)]
    /\ UNCHANGED <<clock, success_count, last_used, response_time, handed,
                   gp_wake, poolRest>>

\* time passes for the pool
PoolTick ==
    /\ clock < MaxPoolTicks * rotation_delay
    /\ clock' = clock + rotation_delay
    /\ pool_result' = NoPoolResult
    /\ UNCHANGED <<proxies, success_count, fail_count, last_used,
                   response_time, handed, gp_wake, poolRest>>

InitProxy ==
    /\ proxies \in SUBSET PoolHandles
    /\ InitJobs
    /\ clock = 0
    /\ InitPoolFields
    /\ response_time \in [AllHandles -> RespTimes]
    /\ InitLimiter
    /\ InitImages
    /\ InitFiles
    /\ InitMore

NextProxy ==
    \/ PoolTick
    \/ ProxyManager_get_proxy
    \/ \E cur \in PoolHandles \cup {None} : rotate_proxy(cur)
    \/ \E h \in PoolHandles : report_success(h)
    \/ \E h \in PoolHandles : report_failure(h)

SpecProxy == InitProxy /\ [][NextProxy]_vars

(***************************************************************************)
(* The pool of scraper/proxy_manager.py                                    *)
(***************************************************************************)
scraper_available == {p \in proxies : Rested(last_used, p, min_delay)}

\* position of p after available_proxies.sort(key=health_score, reverse=True)
\* (the sort is stable)
Rank(p, S) ==
    Cardinality({q \in S :
        \/ RatLT(health_score(p), health_score(q))
        \/ /\ RatGE(health_score(p), health_score(q))
           /\ RatGE(health_score(q), health_score(p))
           /\ q < p})

top_proxies == {p \in scraper_available : Rank(p, scraper_available) < 3}

\* body of get_proxy: None for an empty list; with no rested handle the call
\* sleeps min_delay and calls itself again; else random.choice(top_proxies)
ScraperGetProxy(c) ==
    /\ IF proxies = {}
       THEN /\ pool_result' = [op |-> "get_proxy", impl |-> "scraper",
                               handle |-> None, suspended |-> FALSE,
                               raised |-> FALSE]
            /\ gp_wake' = [gp_wake EXCEPT ![c] = NoTime]
            /\ UNCHANGED <<last_used, handed>>
       ELSE IF scraper_available = {}
       THEN /\ pool_result' = [op |-> "get_proxy", impl |-> "scraper",
                               handle |-> None, suspended |-> TRUE,
                               raised |-> FALSE]
            /\ gp_wake' = [gp_wake EXCEPT ![c] = clock + min_delay]
            /\ UNCHANGED <<last_used, handed>>
       ELSE \E h \in top_proxies :
            /\ pool_result' = [op |-> "get_proxy", impl |-> "scraper",
                               handle |-> h, suspended |-> FALSE,
                               raised |-> FALSE]
            /\ gp_wake' = [gp_wake EXCEPT ![c] = NoTime]
            /\ last_used' = [last_used EXCEPT ![h] = clock]
            /\ handed' = handed \cup {h}
    /\ UNCHANGED <<clock, proxies, success_count, fail_count, response_time,
                   poolRest>>

scraper_get_proxy(c) == gp_wake[c] = NoTime /\ ScraperGetProxy(c)

\* asyncio.sleep(self.min_delay) is over: return await self.get_proxy()
scraper_get_proxy_retry(c) ==
    /\ gp_wake[c] # NoTime
    /\ clock >= gp_wake[c]
    /\ ScraperGetProxy(c)

scraper_report_success(h) ==
    /\ h \in handed
    /\ success_count[h] < MaxSuccess
    /\ success_count' = [success_count EXCEPT ![h] = @ + 1]
    /\ last_used' = [last_used EXCEPT ![h] = clock]
    /\ pool_result' = [op |-> "report_success", impl |-> "scraper",
                       handle |-> h, suspended |-> FALSE, raised |-> FALSE]
    /\ UNCHANGED <<clock, proxies, fail_count, response_time, handed, gp_wake,
                   poolRest>>

scraper_report_failure(h) ==
    LET f == fail_count[h] + 1
        drop == RatLT(Health(success_count[h], f), scraper_floor) IN
    /\ h \in handed
    /\ fail_count[h] <= max_consecutive_fails
    /\ fail_count' = [fail_count EXCEPT ![h] = f]
    /\ proxies' = IF drop THEN proxies \ {h} ELSE proxies
    /\ pool_result' = [op |-> "report_failure", impl |-> "scraper",
                       handle |-> h, suspended |-> FALSE,
                       raised |-> (drop /\ h \notin proxies)]
    /\ UNCHANGED <<clock, success_count, last_used, response_time, handed,
                   gp_wake, poolRest>>

\* time passes; a caller whose sleep is over runs before more time passes
ScraperPoolTick ==
    /\ clock < MaxPoolTicks * min_delay
    /\ \A c \in Callers : gp_wake[c] = NoTime \/ clock < gp_wake[c]
    /\ clock' = clock + min_delay
    /\ pool_result' = NoPoolResult
    /\ UNCHANGED <<proxies, success_count, fail_count, last_used,
                   response_time, handed, gp_wake, poolRest>>

NextScraperProxy ==
    \/ ScraperPoolTick
    \/ \E c \in Callers : scraper_get_proxy(c)
    \/ \E c \in Callers : scraper_get_proxy_retry(c)
    \/ \E h \in PoolHandles : scraper_report_success(h)
    \/ \E h \in PoolHandles : scraper_report_failure(h)

SpecScraperProxy == InitProxy /\ [][NextScraperProxy]_vars

(***************************************************************************)
(* verify_proxies of scraper/proxy_manager.py: one test_proxy task per     *)
(* handle, gathered; the list is rebuilt when all of them are done.  The   *)
(* other callers of the pool run while the probes are in flight.           *)
(***************************************************************************)
\* the list self.proxies, in its order
ProxyList(S) ==
    [i \in 1..Cardinality(S) |->
        CHOOSE h \in S : Cardinality({g \in S : g < h}) = i - 1]

\* tasks = [self.test_proxy(proxy) for proxy in self.proxies]; gather starts
verify_proxies ==
    /\ v_pc = "idle"
    /\ v_pc' = "probing"
    /\ v_tasks' = proxies
    /\ v_res' = [h \in AllHandles |-> IF h \in proxies THEN "pending" ELSE "none"]
    /\ pool_result' = [op |-> "verify_proxies", impl |-> "scraper",
                       handle |-> None, suspended |-> TRUE, raised |-> FALSE]
    /\ UNCHANGED <<clock, proxies, success_count, fail_count, last_used,
                   response_time, handed, gp_wake, verRest>>

\* test_proxy(proxy) ends: status 200 or not
test_proxy(h, ok) ==
    /\ v_pc = "probing"
    /\ h \in v_tasks
    /\ v_res[h] = "pending"
    /\ v_res' = [v_res EXCEPT ![h] = IF ok THEN "ok" ELSE "failed"]
    /\ IF ok
       THEN /\ success_count' = [success_count EXCEPT ![h] = @ + 1]
            /\ \E r \in RespTimes : response_time' = [response_time EXCEPT ![h] = r]
            /\ UNCHANGED fail_count
       ELSE /\ fail_count' = [fail_count EXCEPT ![h] = @ + 1]
            /\ UNCHANGED <<success_count, response_time>>
    /\ pool_result' = [op |-> "test_proxy", impl |-> "scraper", handle |-> h,
                       suspended |-> FALSE, raised |-> FALSE]
    /\ UNCHANGED <<clock, proxies, last_used, handed, gp_wake, v_pc, v_tasks,
                   verRest>>

\* [proxy for proxy, result in zip(self.proxies, results)
\*  if isinstance(result, bool) and result]: the i-th handle of the list as
\* it is now meets the result of the i-th task
Zipped(cur, tasks, res) ==
    {ProxyList(cur)[i] : i \in {k \in 1..Cardinality(cur) :
                                  /\ k <= Cardinality(tasks)
                                  /\ res[ProxyList(tasks)[k]] = "ok"}}

\* gather has returned: the list is rebuilt
verify_proxies_done ==
    /\ v_pc = "probing"
    /\ \A h \in v_tasks : v_res[h] # "pending"
    /\ v_pc' = "done"
    /\ proxies' = Zipped(proxies, v_tasks, v_res)
    /\ pool_result' = [op |-> "verify_proxies", impl |-> "scraper",
                       handle |-> None, suspended |-> FALSE, raised |-> FALSE]
    /\ UNCHANGED <<clock, success_count, fail_count, last_used, response_time,
                   handed, gp_wake, v_tasks, v_res, verRest>>

NextVerify ==
    \/ verify_proxies
    \/ \E h \in PoolHandles, ok \in BOOLEAN : test_proxy(h, ok)
    \/ verify_proxies_done
    \/ \E c \in Callers : scraper_get_proxy(c)
    \/ \E h \in PoolHandles : scraper_report_failure(h)

SpecVerify == InitProxy /\ [][NextVerify]_vars

----
(***************************************************************************)
(* AdaptiveRateLimiter.wait (utils/rate_limiter.py; the copy in            *)
(* scraper/utils/rate_limiter.py has the same statements).  A caller is a  *)
(* task of the event loop: the code between two `await asyncio.sleep` is   *)
(* one step.  Times are milliseconds; a sleeper runs when its time has     *)
(* come, before the clock moves on.                                        *)
(***************************************************************************)
period == 60000       \* RateLimit.period = 60 s for every key
base_delay == 1000    \* self.base_delay = 1.0

\* self.limits.get(domain, self.limits['default'])
LimitKey(d) == IF d \in LimitKeys THEN d ELSE "default"

\* RateLimit.should_reset
should_reset(k) == last_reset[k] = NoTime \/ clock - last_reset[k] > period

\* delay = self.base_delay * (1 + (1 - self.success_rate))
Delay == (base_delay * (2000 - success_rate)) \div 1000

\* variant: the window is taken as full one request too late
WindowFull_late(cnt) == cnt > WindowCapacity

\* while limit.current_count >= limit.requests
WindowFull(cnt) == cnt >= WindowCapacity

\* limit.current_count += 1; self.last_request[domain] = now; wait() returns.
\* cnt and lr are the count and the window start the call has arrived at
Admit(c, d, cnt, lr, called, slept) ==
    /\ current_count' = [current_count EXCEPT ![LimitKey(d)] = cnt + 1]
    /\ last_reset' = [last_reset EXCEPT ![LimitKey(d)] = lr]
    /\ last_request' = [last_request EXCEPT ![d] = clock]
    /\ returned' = [returned EXCEPT ![d] = Append(@, clock)]
    /\ w_pc' = [w_pc EXCEPT ![c] = "idle"]
    /\ w_wake' = [w_wake EXCEPT ![c] = NoTime]
    /\ lim_result' = [op |-> "return", caller |-> c, domain |-> d,
                      waited |-> clock - called, window |-> slept]

\* the rate-limit loop entered with count cnt and window start lr: sleep
\* until the window ends, or reset at once when it has ended, or go on
WindowCheck(c, d, cnt, lr, called) ==
    IF WindowFull(cnt)
    THEN IF lr + period - clock > 0
         THEN /\ current_count' = [current_count EXCEPT ![LimitKey(d)] = cnt]
              /\ last_reset' = [last_reset EXCEPT ![LimitKey(d)] = lr]
              /\ w_pc' = [w_pc EXCEPT ![c] = "window_sleep"]
              /\ w_wake' = [w_wake EXCEPT ![c] = lr + period]
              /\ lim_result' = [op |-> "suspend", caller |-> c, domain |-> d,
                                waited |-> clock - called, window |-> TRUE]
              /\ UNCHANGED <<last_request, returned>>
         ELSE Admit(c, d, 0, clock, called, FALSE)
    ELSE Admit(c, d, cnt, lr, called, FALSE)

\* wait(domain) is called: reset of an elapsed window, the adaptive delay,
\* and, when no sleep is needed, the rest of the call
wait_call(c, d) ==
    LET k == LimitKey(d)
        cnt == IF should_reset(k) THEN 0 ELSE current_count[k]
        lr == IF should_reset(k) THEN clock ELSE last_reset[k]
        since == clock - last_request[d]
    IN
    /\ w_pc[c] = "idle"
    /\ w_calls[c] < MaxCalls
    /\ w_calls' = [w_calls EXCEPT ![c] = @ + 1]
    /\ w_called' = [w_called EXCEPT ![c] = clock]
    /\ w_dom' = [w_dom EXCEPT ![c] = d]
    /\ w_delay' = [w_delay EXCEPT ![c] = Delay]
    /\ IF last_request[d] # NoTime /\ since < Delay
       THEN /\ current_count' = [current_count EXCEPT ![k] = cnt]
            /\ last_reset' = [last_reset EXCEPT ![k] = lr]
            /\ w_pc' = [w_pc EXCEPT ![c] = "delay_sleep"]
            /\ w_wake' = [w_wake EXCEPT ![c] = clock + (Delay - since)]
            /\ lim_result' = [op |-> "suspend", caller |-> c, domain |-> d,
                              waited |-> 0, window |-> FALSE]
            /\ UNCHANGED <<last_request, returned>>
       ELSE WindowCheck(c, d, cnt, lr, clock)
    /\ UNCHANGED <<clock, success_rate, outcomes, limRest>>

\* the sleep of the adaptive delay is over
after_delay(c) ==
    /\ w_pc[c] = "delay_sleep"
    /\ clock >= w_wake[c]
    /\ WindowCheck(c, w_dom[c], current_count[LimitKey(w_dom[c])],
                   last_reset[LimitKey(w_dom[c])], w_called[c])
    /\ UNCHANGED <<clock, success_rate, outcomes, w_dom, w_delay, w_called,
                   w_calls, limRest>>

\* the sleep until the end of the window is over: limit.reset(), the loop
\* condition is false for the fresh count, the call is admitted
after_window(c) ==
    /\ w_pc[c] = "window_sleep"
    /\ clock >= w_wake[c]
    /\ Admit(c, w_dom[c], 0, clock, w_called[c], TRUE)
    /\ UNCHANGED <<clock, success_rate, outcomes, w_dom, w_delay, w_called,
                   w_calls, limRest>>

\* update_success_rate: exponential moving average, alpha = 0.1
update_success_rate(success) ==
    /\ outcomes < MaxOutcomes
    /\ outcomes' = outcomes + 1
    /\ success_rate' = (9 * success_rate + (IF success THEN 1000 ELSE 0)) \div 10
    /\ lim_result' = [op |-> "outcome", caller |-> 0, domain |-> "",
                      waited |-> 0, window |-> FALSE]
    /\ UNCHANGED <<clock, current_count, last_reset, last_request, w_pc, w_dom,
                   w_wake, w_delay, w_called, w_calls, returned, limRest>>

Sleepers == {c \in Callers : w_pc[c] # "idle"}

\* idle steps of base_delay are explored at the start of each period
IdleSteps ==
    IF clock % period < MaxIdle * base_delay THEN {clock + base_delay} ELSE {}

\* time passes, up to the next wake-up
LimiterTick ==
    /\ \A c \in Sleepers : clock < w_wake[c]
    /\ \E t \in {w_wake[c] : c \in Sleepers} \cup IdleSteps
                 \cup {clock + period} :
         /\ t > clock
         /\ t <= MaxWindows * period
         /\ \A c \in Sleepers : t <= w_wake[c]
         /\ clock' = t
    /\ lim_result' = NoLimResult
    /\ UNCHANGED <<current_count, last_reset, last_request, success_rate,
                   w_pc, w_dom, w_wake, w_delay, w_called, w_calls, outcomes,
                   returned, limRest>>

NextLimiter ==
    \/ LimiterTick
    \/ \E c \in Callers, d \in Domains : wait_call(c, d)
    \/ \E c \in Callers : after_delay(c)
    \/ \E c \in Callers : after_window(c)
    \/ \E ok \in BOOLEAN : update_success_rate(ok)

InitLim == Init /\ proxies = {}

SpecLimiter == InitLim /\ [][NextLimiter]_vars

----
(***************************************************************************)
(* ImageProcessor (utils/image_processor.py).  Each URL of a call is a     *)
(* task of the event loop; a step of a task is the code between two        *)
(* awaits.  What the network, the validation and the optimizer answer is   *)
(* chosen freely at each step.                                             *)
(***************************************************************************)
\* the urls argument of a call: the first call is handed distinct URLs, the
\* second a list in which URLs occur again
image_urls(c) ==
    [i \in 1..Cardinality(TasksOf(c)) |->
        IF c = 1 THEN i ELSE ((i - 1) % 2) + 1]

\* for idx, url in enumerate(urls)
Url(u) == image_urls(CallOf(u))[Idx(u) + 1]

\* the tasks whose request for their URL has been issued
Requested(u) == t_pc[u] \in {"get", "optimize", "done"}

\* what session.get / response.read give, and what _validate_image and
\* _optimize_image find
DownloadOutcomes == {"image", "not_image", "status", "error"}
ValidateOutcomes == {"ok", "mime", "small", "large", "decode"}
OptimizeOutcomes == {"ok", "none", "raise"}

\* _validate_image: True only for image data of allowed type, dimensions
\* and size that can be decoded
_validate_image(v) == v = "ok"

\* {'success': False, 'error': ...}
Failure(err) == [success |-> FALSE, url |-> 0, is_primary |-> FALSE,
                 error |-> err, raised |-> FALSE]

\* {'success': True, 'url': url, ..., 'is_primary': is_primary, ...}
Success(u) == [success |-> TRUE, url |-> Url(u), is_primary |-> Idx(u) = 0,
               error |-> "", raised |-> FALSE]

\* except Exception as e: return {'success': False, 'error': str(e)}
Handler(e) == Failure(e)

\* variant: the semaphore never counts as taken
Locked_never(v) == FALSE

\* Semaphore.acquire suspends the caller while no permit is left
Locked(v) == v <= 0

\* the tasks inside `async with self.semaphore`
Inside == {u \in ImgTasks : t_pc[u] \in {"get", "optimize"}}

\* process_images up to `await asyncio.gather(...)`: one task per URL
process_images(c) ==
    /\ call_pc[c] = "idle"
    /\ call_pc' = [call_pc EXCEPT ![c] = "gather"]
    /\ t_pc' = [u \in ImgTasks |-> IF CallOf(u) = c THEN "new" ELSE t_pc[u]]
    /\ UNCHANGED <<call_out, t_attempt, t_stage, t_res, sem_value,
                   sem_waiters, imgRest>>

\* the tasks of a call in the order gather() created them
TaskSeq(c) ==
    [i \in 1..Cardinality(TasksOf(c)) |->
        CHOOSE u \in TasksOf(c) : Idx(u) = i - 1]

\* the permits left when task u reaches `async with self.semaphore`, the
\* earlier tasks of its call having run just before it
Takes(u) == ~Locked(sem_value - Idx(u))

\* the first steps of the tasks of a call, which the event loop runs one
\* after the other in the order of creation: each enters the semaphore and
\* issues its request, or queues up for the semaphore
start_tasks(c) ==
    /\ \A u \in TasksOf(c) : t_pc[u] = "new"
    /\ t_pc' = [u \in ImgTasks |->
                  IF CallOf(u) # c THEN t_pc[u]
                  ELSE IF Takes(u) THEN "get" ELSE "acquire"]
    /\ sem_value' = sem_value - Cardinality({u \in TasksOf(c) : Takes(u)})
    /\ sem_waiters' = sem_waiters \o SelectSeq(TaskSeq(c), LAMBDA u : ~Takes(u))
    /\ UNCHANGED <<call_pc, call_out, t_attempt, t_stage, t_res,
                   imgRest>>

\* a released permit goes to the longest waiting task
acquire_wake(u) ==
    /\ t_pc[u] = "acquire"
    /\ sem_waiters # <<>>
    /\ Head(sem_waiters) = u
    /\ ~Locked(sem_value)
    /\ sem_value' = sem_value - 1
    /\ sem_waiters' = Tail(sem_waiters)
    /\ t_pc' = [t_pc EXCEPT ![u] = "get"]
    /\ UNCHANGED <<call_pc, call_out, t_attempt, t_stage, t_res,
                   imgRest>>

\* the task returns res; leaving `async with` releases the semaphore, and
\* the local `attempt` is gone
Finish(u, res, stage) ==
    /\ t_res' = [t_res EXCEPT ![u] = res]
    /\ t_stage' = [t_stage EXCEPT ![u] = stage]
    /\ t_pc' = [t_pc EXCEPT ![u] = "done"]
    /\ t_attempt' = [t_attempt EXCEPT ![u] = 0]
    /\ sem_value' = sem_value + 1

\* the request of one attempt of _download_image is answered.  On image
\* data, _validate_image and the hand-over to the thread pool follow without
\* an await in between.  After a failed attempt the task sleeps attempt + 1
\* seconds and issues the next request (one suspension here), or gives up
\* after the last attempt
download_attempt(u) ==
    /\ t_pc[u] = "get"
    /\ \E o \in DownloadOutcomes :
         CASE o = "image" ->
                \E valid \in {_validate_image(v) : v \in ValidateOutcomes} :
                   IF valid
                   THEN /\ t_pc' = [t_pc EXCEPT ![u] = "optimize"]
                        /\ t_stage' = [t_stage EXCEPT ![u] = 2]
                        /\ t_attempt' = [t_attempt EXCEPT ![u] = 0]
                        /\ UNCHANGED <<t_res, sem_value>>
                   ELSE Finish(u, Failure("Invalid image"), 1)
           [] o = "not_image" -> Finish(u, Failure("Download failed"), 0)
           [] o \in {"status", "error"} ->
                IF t_attempt[u] < download_attempts - 1
                THEN /\ t_attempt' = [t_attempt EXCEPT ![u] = @ + 1]
                     /\ UNCHANGED <<t_pc, t_res, t_stage, sem_value>>
                ELSE Finish(u, Failure("Download failed"), 0)
    /\ UNCHANGED <<call_pc, call_out, sem_waiters, imgRest>>

\* run_in_executor(self._optimize_image, ...) completes
optimize_done(u) ==
    /\ t_pc[u] = "optimize"
    /\ \E o \in OptimizeOutcomes :
         CASE o = "ok" -> Finish(u, Success(u), 3)
           [] o = "none" -> Finish(u, Failure("Processing failed"), 2)
           [] o = "raise" -> Finish(u, Handler("exception"), 2)
    /\ UNCHANGED <<call_pc, call_out, sem_waiters, imgRest>>

\* variant: every gathered result is kept
Keep_all(r) == TRUE

\* isinstance(result, dict) and result.get('success')
Keep(r) == ~r.raised /\ r.success

\* the values asyncio.gather hands back, in the order of the tasks
Results(c) == [i \in DOMAIN TaskSeq(c) |-> t_res[TaskSeq(c)[i]]]

\* gather is complete: filter the results and return
gather_done(c) ==
    /\ call_pc[c] = "gather"
    /\ \A u \in TasksOf(c) : t_pc[u] = "done"
    /\ IF ~return_exceptions /\ \E u \in TasksOf(c) : t_res[u].raised
       THEN /\ call_pc' = [call_pc EXCEPT ![c] = "raised"]
            /\ UNCHANGED call_out
       ELSE /\ call_pc' = [call_pc EXCEPT ![c] = "returned"]
            /\ call_out' = [call_out EXCEPT ![c] = SelectSeq(Results(c), Keep)]
    /\ UNCHANGED <<t_pc, t_attempt, t_stage, t_res, sem_value,
                   sem_waiters, imgRest>>

NextImages ==
    \/ \E c \in ImgCalls : process_images(c)
    \/ \E c \in ImgCalls : start_tasks(c)
    \/ \E u \in ImgTasks : acquire_wake(u)
    \/ \E u \in ImgTasks : download_attempt(u)
    \/ \E u \in ImgTasks : optimize_done(u)
    \/ \E c \in ImgCalls : gather_done(c)

InitImg == Init /\ proxies = {}

SpecImages == InitImg /\ [][NextImages]_vars

----
(***************************************************************************)
(* ImageProcessor.cleanup_unused_images (utils/image_processor.py; the     *)
(* copy in scraper/utils/image_processor.py walks self.base_path with the  *)
(* same statements).  The method has no await: a call is one step.         *)
(***************************************************************************)
\* process_images: product_dir.mkdir(exist_ok=True)
make_dir(d) ==
    /\ fs_dirs' = fs_dirs \cup {d}
    /\ fs_event' = [NoFsEvent EXCEPT !.op = "mkdir"]
    /\ UNCHANGED <<fs_files, fsRest>>

\* _optimize_image: image.save(filepath) inside the product directory
store_image(d, n) ==
    /\ d \in fs_dirs
    /\ fs_files' = fs_files \cup {<<d, n>>}
    /\ fs_event' = [NoFsEvent EXCEPT !.op = "store"]
    /\ UNCHANGED <<fs_dirs, fsRest>>

\* if str(image_file) not in active_paths: image_file.unlink()
Unused(f, active) == f \notin active

\* variant: emptied directories are left behind
EmptyDir_never(d, files) == FALSE

\* if not any(product_dir.iterdir()): product_dir.rmdir()
EmptyDir(d, files) == ~\E f \in files : f[1] = d

cleanup_unused_images(active) ==
    LET kept == {f \in fs_files : ~Unused(f, active)}
        again == fs_event.op = "cleanup" /\ fs_event.active = active IN
    /\ fs_files' = kept
    /\ fs_dirs' = {d \in fs_dirs : ~EmptyDir(d, kept)}
    /\ fs_event' = [op |-> "cleanup", active |-> active, repeat |-> again,
                    deleted |-> Cardinality(fs_files \ kept),
                    first |-> IF again THEN fs_event.deleted ELSE 0]
    /\ UNCHANGED fsRest

NextCleanup ==
    \/ \E d \in Products : make_dir(d)
    \/ \E d \in Products, n \in FileNames : store_image(d, n)
    \/ \E active \in SUBSET Paths : cleanup_unused_images(active)

InitCleanup == Init /\ proxies = {}

SpecCleanup == InitCleanup /\ [][NextCleanup]_vars

TypeOK ==
    /\ now \in 0..MaxTicks
    /\ nextId \in 0..NumJobs
    /\ active_jobs \subseteq 1..nextId
    /\ \A j \in JobIds : status[j] \in Statuses

----
(***************************************************************************)
(* Properties                                                              *)
(***************************************************************************)
JobState(j) == <<status[j], retry_count[j], items_scraped[j], error_count[j],
                 error[j], proxy_used[j], start_time[j], max_items[j],
                 platform[j], progress[j]>>

\* C1: once a job's status is completed, failed or cancelled, no step of the
\* task, of cancel_job or of cleanup_jobs changes it
C1_TerminalStatusIsFinal ==
    [][\A j \in JobIds : status[j] \in Terminal => status'[j] = status[j]]_vars

\* C2: cancel(job_id) returns true and leaves the job cancelled when the job
\* is pending or running at the call; otherwise (terminal or unknown job) it
\* returns false and leaves the job unchanged
C2_CancelContract ==
    [][\A j \in JobIds :
          (result'.op = "cancel" /\ result'.job = j) =>
             IF j \in active_jobs /\ status[j] \in {"pending", "running"}
             THEN result'.ret /\ status'[j] = "cancelled"
             ELSE ~result'.ret /\ JobState(j)' = JobState(j)
                  /\ (j \in active_jobs' <=> j \in active_jobs)]_vars

\* C3: in every reachable state every job has items_scraped <= max_items
C3_ItemsWithinMax ==
    \A j \in JobIds : items_scraped[j] <= max_items[j]

\* C4: over a job's lifetime the cleanup's proxy release and monitor
\* notification happen exactly once: never twice, and once the task has
\* ended the notification has happened, and the release too when a proxy
\* was recorded
C4_CleanupExactlyOnce ==
    \A j \in JobIds :
        /\ notified[j] <= 1
        /\ released[j] <= 1
        /\ pc[j] = "done" => /\ notified[j] = 1
                             /\ proxy_used[j] # None => released[j] = 1

\* C5: a job goes pending -> running -> completed/failed/cancelled: its
\* status is running while its task executes, and completed is entered
\* only from running
C5_StatusMachine ==
    [][\A j \in JobIds :
          /\ j \in Executing' => status'[j] = "running"
          /\ (status'[j] = "completed" /\ status[j] # "completed")
                => status[j] = "running"]_vars

\* C6: the retry loop begins at most max_retries attempts, and a task that
\* has ended with every attempt failed leaves the job failed with the
\* message of the last failed attempt as its error
C6_RetriesBounded ==
    \A j \in JobIds :
        /\ attempts[j] <= max_retries
        /\ (pc[j] = "done" /\ attempts[j] >= 1 /\ retry_count[j] = attempts[j])
              => /\ status[j] = "failed"
                 /\ error[j] = last_exc[j]

C6_Witness ==
    \E j \in JobIds :
        /\ pc[j] = "done"
        /\ attempts[j] = max_retries
        /\ retry_count[j] = max_retries
        /\ status[j] = "failed"
        /\ error[j] = ErrStore
        /\ last_exc[j] = ErrStore

\* C7: after a cancel request for a pending or running job (the requests the
\* contract accepts) the job is cancelled and stays cancelled, and its task
\* begins no further attempt
C7_CancelStopsTask ==
    [][cancel_req' # 0 =>
          /\ status'[cancel_req'] = "cancelled"
          /\ cancel_req # 0 => attempts'[cancel_req] = attempts[cancel_req]]_vars

\* C8: with no qualifying handle in the pool a job ends failed with a
\* NoProxyAvailable error, after a bounded number of acquisition attempts
ErrNoProxyAvailable == "NoProxyAvailable"

C8_NoProxyFailsDistinctly ==
    \A j \in JobIds :
        (proxies = {} /\ pc[j] = "done")
           => /\ status[j] = "failed"
              /\ error[j] = ErrNoProxyAvailable
              /\ attempts[j] <= max_retries

\* what one call of cleanup_jobs establishes, from the state before it
SweepPost ==
    /\ \A j \in active_jobs' :
          ~(status'[j] \in Terminal
              /\ (now' - start_time'[j]) * TickSeconds > retention)
    /\ \A j \in active_jobs :
          (status[j] \notin Terminal
              /\ (now - start_time[j]) * TickSeconds > job_timeout)
            => /\ status'[j] = "failed"
               /\ error'[j] = ErrTimeout
               /\ j \notin active_jobs'
    /\ \A j \in JobIds :
          (/\ ~(j \in active_jobs
                 /\ (now - start_time[j]) * TickSeconds > retention
                 /\ status[j] \in Terminal)
           /\ ~(j \in active_jobs
                 /\ (now - start_time[j]) * TickSeconds > job_timeout
                 /\ status[j] \notin Terminal))
            => /\ JobState(j)' = JobState(j)
               /\ (j \in active_jobs' <=> j \in active_jobs)

OverCeiling(j) == j \in active_jobs /\ Age(j) > job_timeout

\* C9: after cleanup_jobs returns, no job left in the table is terminal and
\* older than the retention window, every job that was non-terminal and older
\* than the timeout ceiling is failed with the timeout error, and every other
\* job is unchanged; and while cleanup_jobs keeps being called, a job past
\* the ceiling leaves the table whatever its task does
C9_SweepReclaims ==
    /\ [][result'.op = "sweep" => SweepPost]_vars
    /\ \A j \in 1..MaxSubmitted : OverCeiling(j) ~> (j \notin active_jobs)

C9_Witness ==
    /\ result.op = "sweep"
    /\ \E i, j \in JobIds :
          /\ i \notin active_jobs /\ pc[i] = "run"
          /\ status[i] = "failed" /\ error[i] = ErrTimeout
          /\ j \in active_jobs /\ status[j] = "pending"

C11_ProgressMonotone ==
    [][\A j \in JobIds :
          /\ (status[j] = "running" /\ status'[j] = "running")
                => progress'[j] >= progress[j]
          /\ (status'[j] = "completed" /\ status[j] # "completed")
                => \/ progress'[j] = 1
                   \/ progress'[j] * max_items'[j] = items_scraped'[j]]_vars

\* C12: every job in the job table has a supported platform and
\* 1 <= max_items <= 200, because a request with another platform or
\* max_items is rejected and creates no job
C12_OnlyValidJobs ==
    \A j \in active_jobs :
        /\ platform[j] \in {"ebay", "amazon"}
        /\ 1 <= max_items[j] /\ max_items[j] <= 200

HealthFloor(impl) == IF impl = "scraper" THEN scraper_floor ELSE min_health_score
ReuseInterval(impl) == IF impl = "scraper" THEN min_delay ELSE rotation_delay

Qualifies(h, impl) ==
    /\ h \in proxies
    /\ RatGE(health_score(h), HealthFloor(impl))
    /\ Rested(last_used, h, ReuseInterval(impl))

\* C13: a call of get_proxy returns at once; a handle it returns was, at the
\* call, in the pool with health >= the floor and last_used older than the
\* reuse interval (or never used); it returns None exactly when no handle
\* qualifies
C13_AcquireFilters ==
    [][pool_result'.op = "get_proxy" =>
          /\ ~pool_result'.suspended
          /\ IF pool_result'.handle # None
             THEN Qualifies(pool_result'.handle, pool_result'.impl)
             ELSE \A q \in proxies : ~Qualifies(q, pool_result'.impl)]_vars

\* C14: a report_failure that takes the handle's failures to the ceiling, or
\* its health below the floor, leaves the handle out of the pool; the pool
\* never regains a handle, and get_proxy returns only handles of the pool
C14_EvictOnFailure ==
    [][/\ \A h \in PoolHandles :
            (pool_result'.op = "report_failure" /\ pool_result'.handle = h
               /\ (\/ fail_count'[h] >= max_consecutive_fails
                   \/ RatLT(Health(success_count'[h], fail_count'[h]),
                            min_health_score)))
              => h \notin proxies'
       /\ proxies' \subseteq proxies
       /\ (pool_result'.op \in {"get_proxy", "rotate_proxy"}
             /\ pool_result'.handle # None)
              => pool_result'.handle \in proxies]_vars

C14_Witness ==
    \E h, g \in PoolHandles :
        /\ pool_result.op = "report_failure" /\ pool_result.handle = h
        /\ h \notin proxies
        /\ fail_count[h] = max_consecutive_fails
        /\ success_count[h] = 2
        /\ g \in proxies /\ last_used[g] # NoTime

\* returns of wait(d) that fall into the current window of d's limit
InWindow(d) ==
    {i \in DOMAIN returned[d] :
        /\ last_reset[LimitKey(d)] <= returned[d][i]
        /\ returned[d][i] < last_reset[LimitKey(d)] + period}

\* C15: for every target, at most `requests` calls of wait() return within
\* one window, whatever the number of callers; and a caller suspended on a
\* full window resumes only when the window has ended
C15_WindowBound ==
    [][/\ \A d \in Domains : Cardinality(InWindow(d))' <= WindowCapacity
       /\ \A c \in Callers :
             (w_pc[c] = "window_sleep" /\ w_pc'[c] # "window_sleep")
                => clock >= w_wake[c]]_vars

\* C16: two consecutive returns of wait() for one target are at least the
\* adaptive delay base_delay * (1 + (1 - success_rate)) apart
C16_AdaptiveSpacing ==
    [][lim_result'.op = "return" =>
          (last_request[lim_result'.domain] # NoTime
             => clock' - last_request[lim_result'.domain]
                   >= w_delay'[lim_result'.caller])]_vars

\* C17: of N + 1 calls made within one window, N the capacity, the first N
\* return without waiting for the window, and the (N+1)th returns after a
\* suspension longer than 0 and at most the period
C17_OverflowSuspends ==
    [][lim_result'.op = "return" =>
          LET d == lim_result'.domain
              n == Len(returned[d])
          IN /\ n < WindowCapacity => ~lim_result'.window
             /\ (n = WindowCapacity
                   /\ w_called'[lim_result'.caller] < returned[d][1] + period)
                  => /\ lim_result'.waited > 0
                     /\ lim_result'.waited <= period]_vars

C17_Witness ==
    /\ lim_result.op = "return"
    /\ lim_result.window
    /\ Len(returned[lim_result.domain]) = WindowCapacity + 1
    /\ lim_result.waited = period - base_delay

\* C18: process_images never raises because of a URL that failed, and the
\* list it returns holds exactly one result for each URL that passed
\* download, validation and optimization, in order, and nothing for the
\* URLs that failed
C18_FailuresSwallowed ==
    \A c \in ImgCalls :
       /\ call_pc[c] # "raised"
       /\ call_pc[c] = "returned" =>
             LET ok == SelectSeq(Results(c), LAMBDA r : r.success)
             IN /\ call_out[c] = ok
                /\ Len(ok) = Cardinality({u \in TasksOf(c) : t_stage[u] = 3})
                /\ \A u \in TasksOf(c) : t_res[u].success <=> t_stage[u] = 3

C18_Witness ==
    \E c \in ImgCalls :
       /\ call_pc[c] = "returned"
       /\ Len(call_out[c]) = 1
       /\ \E u, v \in TasksOf(c) :
             /\ t_res[u].error = "Download failed"
             /\ t_res[v].error = "Invalid image"

\* C19: at most 5 URLs are inside the download / validate / optimize
\* section at any time, over all the calls that share the processor
C19_ConcurrencyCeiling ==
    /\ Cardinality(Inside) <= semaphore
    /\ sem_value = semaphore - Cardinality(Inside)

C19_Witness ==
    /\ Cardinality(Inside) = semaphore
    /\ sem_waiters # <<>>
    /\ \A c \in ImgCalls : Inside \cap TasksOf(c) # {}

\* C21: when a job is completed, the records persisted for it through
\* _store_results are as many as its items_scraped
C21_StoredEqualsScraped ==
    \A j \in JobIds : status[j] = "completed" => stored[j] = items_scraped[j]

C25_AllHandlesReleased ==
    \A j \in JobIds :
       (pc[j] = "done" /\ status[j] \in Terminal) => released[j] >= acquired[j]

Reported(op, h) == pool_result'.op = op /\ pool_result'.handle = h
RatEQ(a, b) == RatGE(a, b) /\ RatGE(b, a)

\* C23: the health score of a handle strictly decreases with every reported
\* failure and strictly increases with every reported success
C23_StrictlyMonotone ==
    [][\A h \in PoolHandles :
          /\ Reported("report_success", h) =>
                RatLT(health_score(h), health_score(h)')
          /\ Reported("report_failure", h) =>
                RatLT(health_score(h)', health_score(h))]_vars

\* C23 as amended: the score is successes / (successes + failures), 0.5
\* without history; a reported success raises it strictly unless it is
\* already 1.0, where it stays, and a reported failure lowers it strictly
\* unless it is already 0.0, where it stays
C23_MonotoneToExtremes ==
    [][\A h \in PoolHandles :
          /\ Reported("report_success", h) =>
                /\ health_score(h)' = Health(success_count[h] + 1, fail_count[h])
                /\ IF RatEQ(health_score(h), <<1, 1>>)
                   THEN RatEQ(health_score(h)', <<1, 1>>)
                   ELSE RatLT(health_score(h), health_score(h)')
          /\ Reported("report_failure", h) =>
                /\ health_score(h)' = Health(success_count[h], fail_count[h] + 1)
                /\ IF RatEQ(health_score(h), <<0, 1>>)
                   THEN RatEQ(health_score(h)', <<0, 1>>)
                   ELSE RatLT(health_score(h)', health_score(h))]_vars

C23_Witness ==
    \E h \in PoolHandles :
       /\ pool_result.op = "report_success" /\ pool_result.handle = h
       /\ success_count[h] = 2 /\ fail_count[h] = 0

\* C24: after cleanup_unused_images(active_paths) the stored files are the
\* files stored before that are in active_paths and no directory without a
\* file is left; a second call with the same active_paths deletes no file
\* and no directory
C24_CleanupIdempotent ==
    [][fs_event'.op = "cleanup" =>
          /\ fs_files' = fs_files \cap fs_event'.active
          /\ \A d \in fs_dirs' : \E f \in fs_files' : f[1] = d
          /\ fs_dirs' \subseteq fs_dirs
          /\ fs_event'.repeat =>
                /\ fs_event'.deleted = 0
                /\ fs_files' = fs_files
                /\ fs_dirs' = fs_dirs]_vars

C24_Witness ==
    /\ fs_event.op = "cleanup"
    /\ fs_event.repeat
    /\ fs_event.first > 0
    /\ fs_files # {}
    /\ fs_dirs # Products

\* C26: when verify_proxies completes, no handle whose own probe failed is
\* in the pool, and every handle that was in the pool at the start and at
\* the end of the probes and whose own probe succeeded is in it
C26_VerifyKeepsResponders ==
    [][(v_pc = "probing" /\ v_pc' = "done") =>
          /\ \A h \in proxies' : h \in v_tasks /\ v_res[h] = "ok"
          /\ \A h \in proxies \cap v_tasks : v_res[h] = "ok" => h \in proxies']_vars


----
(***************************************************************************)
(* The file an image is saved to (utils/image_processor.py; the copy in    *)
(* scraper/utils/image_processor.py has the same _generate_filename).      *)
(* Strings of digits are numbers; a file is <<product, name>>.             *)
(***************************************************************************)
FnUrls == 1..NumUrls
HashSpace == 16

\* f"{url}{timestamp}" for a one-digit timestamp
Concat(url, timestamp) == url * 10 + timestamp

\* hashlib.md5(...).hexdigest()[:10]: a fixed function of the string with a
\* finite range
md5_10(x) == (x * 7 + 3) % HashSpace

\* _generate_filename(url, product_id), called at time timestamp; the
\* product_id prefix of the name repeats the directory of the path
_generate_filename(url, product_id, timestamp) ==
    md5_10(Concat(url, timestamp))

\* _process_single_image from `filename = self._generate_filename(...)` to
\* image.save(filepath, ...), which creates the file or overwrites it
save_image(url, product_id) ==
    LET filename == _generate_filename(url, product_id, fn_time)
        filepath == <<product_id, filename>>
    IN
    /\ fn_files' = fn_files \cup {filepath}
    /\ fn_done' = fn_done \cup {<<url, product_id>>}
    /\ fn_event' = [op |-> "save", url |-> url, product |-> product_id,
                    name |-> filename, again |-> <<url, product_id>> \in fn_done]
    /\ UNCHANGED <<fn_time, fnRest>>

\* time passes between two runs
FnTick ==
    /\ fn_time < MaxFnTicks
    /\ fn_time' = fn_time + 1
    /\ fn_event' = NoFnEvent
    /\ UNCHANGED <<fn_files, fn_done, fnRest>>

NextNames ==
    \/ FnTick
    \/ \E url \in FnUrls, product_id \in Products : save_image(url, product_id)

\* a component exercised on its own: no proxy is configured
InitAlone == Init /\ proxies = {}

SpecNames == InitAlone /\ [][NextNames]_vars


----
(***************************************************************************)
(* ScraperMonitor (scraper/monitor.py).  track_job has no await: a call is *)
(* one step.  A rate is the pair <<numerator, denominator>>.               *)
(***************************************************************************)
\* the stats dictionaries handed to track_job; response_time 0 is a missing
\* or zero value
Stats == [items_scraped : {0, 1}, errors : {0, 1}, bandwidth : {0, 1},
          response_time : {0, 1}]

RECURSIVE sum(_)
sum(q) == IF q = <<>> THEN 0 ELSE Head(q) + sum(Tail(q))

\* variant: a deque without maxlen
append_unbounded(q, x) == Append(q, x)

\* deque(maxlen=window_size).append(x)
append(q, x) == IF Len(q) >= window_size THEN Append(Tail(q), x) ELSE Append(q, x)

track_job(stats) ==
    LET success == stats.errors = 0 IN
    /\ m_tracked < MaxTracks
    /\ m_tracked' = m_tracked + 1
    /\ m_items_scraped' = append(m_items_scraped, stats.items_scraped)
    /\ m_bandwidth_usage' = append(m_bandwidth_usage, stats.bandwidth)
    /\ m_response_times' = IF stats.response_time # 0
                           THEN append(m_response_times, stats.response_time)
                           ELSE m_response_times
    /\ m_success_counts' = append(m_success_counts, IF success THEN 1 ELSE 0)
    /\ m_error_counts' = IF success THEN m_error_counts
                         ELSE append(m_error_counts, 1)
    /\ m_event' = [NoMonEvent EXCEPT !.op = "track",
                                     !.success = IF success THEN 1 ELSE 0]
    /\ UNCHANGED monRest

\* sum(self.success_counts) / len(self.success_counts) * 100, or 100
success_rate_of(q) == IF q # <<>> THEN <<sum(q) * 100, Len(q)>> ELSE <<100, 1>>

\* get_metrics; when a psutil call raises, the handler's logger.error raises
\* NameError (the module defines no logger) and no snapshot is returned
get_metrics ==
    /\ \E psutil \in {"ok", "raise"} :
         m_event' = IF psutil = "ok"
                    THEN [NoMonEvent EXCEPT
                            !.op = "metrics",
                            !.success_rate = success_rate_of(m_success_counts),
                            !.error_count = sum(m_error_counts)]
                    ELSE [NoMonEvent EXCEPT !.op = "metrics", !.raised = TRUE]
    /\ UNCHANGED <<m_response_times, m_success_counts, m_error_counts,
                   m_items_scraped, m_bandwidth_usage, m_tracked, monRest>>

NextMonitor ==
    \/ \E stats \in Stats : track_job(stats)
    \/ get_metrics

SpecMonitor == InitAlone /\ [][NextMonitor]_vars


----
(***************************************************************************)
(* ScrapingOrchestrator._execute_task (scraper/orchestrator.py).  A step   *)
(* is the code of a task between two awaits.  The spider, the image        *)
(* processor and the database return or raise freely.                      *)
(***************************************************************************)
\* self.platform_configs
platform_configs ==
    [p \in {"ebay", "amazon"} |-> [max_retries |-> 3, proxy_required |-> TRUE]]

\* the platforms tasks are started for; "etsy" has no configuration
TaskPlatforms == {"ebay", "etsy"}

\* start_scraping: the task is created and its coroutine scheduled
start_scraping(t, plat) ==
    /\ task_pc[t] = "idle"
    /\ task_platform' = [task_platform EXCEPT ![t] = plat]
    /\ task_status' = [task_status EXCEPT ![t] = "pending"]
    /\ task_pc' = [task_pc EXCEPT ![t] = "start"]
    /\ UNCHANGED <<task_proxy, task_retry, task_acquired, task_released,
                   task_cleaned, task_escaped, proxies, orchRest>>

\* the finally clause up to its first await: `if proxy:` raises
\* UnboundLocalError when proxy was never assigned, else release_proxy is
\* awaited for a handle, and _cleanup_task otherwise
Finally(t, proxy) ==
    IF proxy = Unbound
    THEN /\ task_pc' = [task_pc EXCEPT ![t] = "done"]
         /\ task_escaped' = [task_escaped EXCEPT ![t] = TRUE]
    ELSE /\ task_pc' = [task_pc EXCEPT ![t] =
                           IF proxy # None THEN "release" ELSE "cleanup"]
         /\ UNCHANGED task_escaped

\* except Exception as e: task.status = 'failed'; then the finally clause
Failed(t, proxy) ==
    /\ task_status' = [task_status EXCEPT ![t] = "failed"]
    /\ Finally(t, proxy)

\* _execute_task up to `await self.proxy_manager.get_proxy()`
execute_task(t) ==
    /\ task_pc[t] = "start"
    /\ IF task_platform[t] \notin DOMAIN platform_configs
       THEN Failed(t, task_proxy[t])
       ELSE /\ task_proxy' = [task_proxy EXCEPT ![t] = None]
            /\ task_pc' = [task_pc EXCEPT ![t] = "get_proxy"]
            /\ UNCHANGED <<task_status, task_escaped>>
    /\ IF task_platform[t] \notin DOMAIN platform_configs
       THEN UNCHANGED task_proxy ELSE TRUE
    /\ UNCHANGED <<task_platform, task_retry, task_acquired, task_released,
                   task_cleaned, proxies, orchRest>>

\* get_proxy returns; the spider is built and _scrape_with_retries runs up
\* to `await spider.run()`
spider_setup(t) ==
    /\ task_pc[t] = "get_proxy"
    /\ \E p \in get_proxy, built \in BOOLEAN :
         /\ task_proxy' = [task_proxy EXCEPT ![t] = p]
         /\ task_acquired' = [task_acquired EXCEPT ![t] =
                                 IF p # None THEN @ + 1 ELSE @]
         /\ IF built
            THEN /\ task_pc' = [task_pc EXCEPT ![t] = "run"]
                 /\ UNCHANGED <<task_status, task_escaped>>
            ELSE Failed(t, p)
    /\ UNCHANGED <<task_platform, task_retry, task_released, task_cleaned,
                   proxies, orchRest>>

\* spider.run() returns: _process_results follows
run_returns(t) ==
    /\ task_pc[t] = "run"
    /\ task_pc' = [task_pc EXCEPT ![t] = "results"]
    /\ UNCHANGED <<task_platform, task_status, task_proxy, task_retry,
                   task_acquired, task_released, task_cleaned, task_escaped,
                   proxies, orchRest>>

\* spider.run() raises: the last attempt re-raises, the others sleep
run_raises(t) ==
    LET rc == task_retry[t] + 1 IN
    /\ task_pc[t] = "run"
    /\ task_retry' = [task_retry EXCEPT ![t] = rc]
    /\ IF rc >= platform_configs[task_platform[t]].max_retries
       THEN Failed(t, task_proxy[t])
       ELSE /\ task_pc' = [task_pc EXCEPT ![t] = "sleep"]
            /\ UNCHANGED <<task_status, task_escaped>>
    /\ UNCHANGED <<task_platform, task_proxy, task_acquired, task_released,
                   task_cleaned, proxies, orchRest>>

\* after the sleep: _scrape_with_retries gets a new proxy into its own
\* parameter when it had one, and runs the spider again
retry_run(t) ==
    /\ task_pc[t] = "sleep"
    /\ \E p \in get_proxy :
         task_acquired' = [task_acquired EXCEPT ![t] =
                              IF task_proxy[t] # None /\ p # None
                              THEN @ + 1 ELSE @]
    /\ task_pc' = [task_pc EXCEPT ![t] = "run"]
    /\ UNCHANGED <<task_platform, task_status, task_proxy, task_retry,
                   task_released, task_cleaned, task_escaped, proxies,
                   orchRest>>

\* _process_results returns (it catches what an item raises): the task is
\* completed, then the finally clause
results_processed(t) ==
    /\ task_pc[t] = "results"
    /\ task_status' = [task_status EXCEPT ![t] = "completed"]
    /\ Finally(t, task_proxy[t])
    /\ UNCHANGED <<task_platform, task_proxy, task_retry, task_acquired,
                   task_released, task_cleaned, proxies, orchRest>>

\* await self.proxy_manager.release_proxy(proxy) returns
release_proxy(t) ==
    /\ task_pc[t] = "release"
    /\ task_released' = [task_released EXCEPT ![t] = @ + 1]
    /\ task_pc' = [task_pc EXCEPT ![t] = "cleanup"]
    /\ UNCHANGED <<task_platform, task_status, task_proxy, task_retry,
                   task_acquired, task_cleaned, task_escaped, proxies,
                   orchRest>>

\* _cleanup_task: its body is inside try / except Exception
_cleanup_task(t) ==
    /\ task_pc[t] = "cleanup"
    /\ task_cleaned' = [task_cleaned EXCEPT ![t] = @ + 1]
    /\ task_pc' = [task_pc EXCEPT ![t] = "done"]
    /\ UNCHANGED <<task_platform, task_status, task_proxy, task_retry,
                   task_acquired, task_released, task_escaped, proxies,
                   orchRest>>

NextTasks ==
    \/ \E t \in Tasks, plat \in TaskPlatforms : start_scraping(t, plat)
    \/ \E t \in Tasks : execute_task(t)
    \/ \E t \in Tasks : spider_setup(t)
    \/ \E t \in Tasks : run_returns(t)
    \/ \E t \in Tasks : run_raises(t)
    \/ \E t \in Tasks : retry_run(t)
    \/ \E t \in Tasks : results_processed(t)
    \/ \E t \in Tasks : release_proxy(t)
    \/ \E t \in Tasks : _cleanup_task(t)

SpecTasks == Init /\ [][NextTasks]_vars


----
(***************************************************************************)
(* TokenBucketRateLimiter (utils/rate_limiter.py; the copy in              *)
(* scraper/utils/rate_limiter.py has the same acquire).  A step is the     *)
(* code of a call between two awaits.  Time is kept as the age of          *)
(* last_updated, so that callers can go on calling for ever.               *)
(***************************************************************************)
Min(a, b) == IF a <= b THEN a ELSE b

\* int(time_passed / self.interval * self.tokens)
new_tokens == (tb_age * tokens) \div bucket_interval

\* available_tokens after the refill in the body of the while loop
Refilled == IF new_tokens > 0 THEN Min(available_tokens + new_tokens, tokens)
            ELSE available_tokens

\* acquire from the (re-)evaluation of the while condition to the next
\* await or to the return
Loop(c, n) ==
    IF available_tokens >= n
    THEN /\ available_tokens' = available_tokens - n
         /\ tb_pc' = [tb_pc EXCEPT ![c] = "idle"]
         /\ tb_need' = [tb_need EXCEPT ![c] = 0]
         /\ tb_sleep' = [tb_sleep EXCEPT ![c] = 0]
         /\ tb_event' = [op |-> "return", caller |-> c, n |-> n]
         /\ UNCHANGED tb_age
    ELSE /\ tb_age' = IF new_tokens > 0 THEN 0 ELSE tb_age
         /\ IF Refilled < n
            THEN /\ available_tokens' = Refilled
                 /\ tb_pc' = [tb_pc EXCEPT ![c] = "sleeping"]
                 /\ tb_need' = [tb_need EXCEPT ![c] = n]
                 /\ tb_sleep' = [tb_sleep EXCEPT ![c] = bucket_interval]
                 /\ tb_event' = [op |-> "suspend", caller |-> c, n |-> n]
            ELSE /\ available_tokens' = Refilled - n
                 /\ tb_pc' = [tb_pc EXCEPT ![c] = "idle"]
                 /\ tb_need' = [tb_need EXCEPT ![c] = 0]
                 /\ tb_sleep' = [tb_sleep EXCEPT ![c] = 0]
                 /\ tb_event' = [op |-> "return", caller |-> c, n |-> n]

\* a caller calls acquire(n)
acquire(c, n) ==
    /\ tb_pc[c] = "idle"
    /\ Loop(c, n)
    /\ UNCHANGED tbRest

\* asyncio.sleep(self.interval) is over
acquire_resume(c) ==
    /\ tb_pc[c] = "sleeping"
    /\ tb_sleep[c] = 0
    /\ Loop(c, tb_need[c])
    /\ UNCHANGED tbRest

\* time passes; a caller whose sleep is over runs before more time passes
BucketTick ==
    /\ \A c \in Callers : tb_pc[c] = "sleeping" => tb_sleep[c] > 0
    /\ tb_age' = Min(tb_age + 1, bucket_interval)
    /\ tb_sleep' = [c \in Callers |->
                      IF tb_pc[c] = "sleeping" THEN tb_sleep[c] - 1 ELSE 0]
    /\ tb_event' = NoTbEvent
    /\ UNCHANGED <<available_tokens, tb_pc, tb_need, tbRest>>

NextBucket ==
    \/ BucketTick
    \/ \E c \in Callers, n \in 1..tokens : acquire(c, n)
    \/ \E c \in Callers : acquire_resume(c)

\* time advances and the event loop resumes a caller whose sleep is over
SpecBucket ==
    /\ InitAlone
    /\ [][NextBucket]_vars
    /\ WF_vars(BucketTick)
    /\ \A c \in Callers : WF_vars(acquire_resume(c))

\* C27: a step of wait(A) leaves the window count and the window start of
\* every other target key unchanged, so a target without a configured limit
\* has a window of its own; and a reported outcome leaves the adaptive
\* delay of the targets it was not reported for unchanged
C27_PacingPerTarget ==
    [][/\ lim_result'.op \in {"return", "suspend"} =>
            \A k \in LimitKeys \ {lim_result'.domain} :
               /\ current_count'[k] = current_count[k]
               /\ last_reset'[k] = last_reset[k]
       /\ lim_result'.op = "outcome" => Delay' = Delay]_vars

\* C28: a non-empty list returned by process_images has exactly one result
\* flagged primary, and it is the first successfully processed URL, that
\* is the first element of the list
C28_OnePrimary ==
    \A c \in ImgCalls :
       (call_pc[c] = "returned" /\ call_out[c] # <<>>) =>
          /\ Cardinality({i \in DOMAIN call_out[c] :
                             call_out[c][i].is_primary}) = 1
          /\ call_out[c][1].is_primary

\* C30: a URL that occurs several times in the list handed to
\* process_images is requested by one task only and occurs in at most one
\* of the results returned
C30_Deduplicated ==
    \A c \in ImgCalls :
       /\ \A u, v \in TasksOf(c) :
             (Requested(u) /\ Requested(v) /\ Url(u) = Url(v)) => u = v
       /\ \A i, j \in DOMAIN call_out[c] :
             call_out[c][i].url = call_out[c][j].url => i = j

\* the handles of S whose health_score / (response_time + 0.1) is largest
MaxKey(S) == {p \in S : \A q \in S : RatGE(Key(p), Key(q))}

\* get_proxy can return handle h in the current state
CanReturn(h) == ENABLED (ProxyManager_get_proxy /\ pool_result'.handle = h)

\* C29: the handle get_proxy returns has the largest
\* health_score / (response_time + 0.1) of the handles that pass the filter,
\* and when several of them share the largest value the call can return
\* more than one of them
C29_BestRandomized ==
    /\ [][(pool_result'.op = "get_proxy" /\ pool_result'.handle # None) =>
             pool_result'.handle \in MaxKey(available(last_used))]_vars
    /\ [](Cardinality(MaxKey(available(last_used))) > 1 =>
             \E g, h \in PoolHandles :
                g # h /\ CanReturn(g) /\ CanReturn(h))

\* C31: saving the image of a URL that was already processed for the same
\* product writes to the path of the first run: no file is added
C31_SamePathOnRerun ==
    [][(fn_event'.op = "save" /\ fn_event'.again) => fn_files' = fn_files]_vars

\* the deques of the monitor
Windows == <<m_response_times, m_success_counts, m_error_counts,
             m_items_scraped, m_bandwidth_usage>>

\* q2 is q1 without its oldest element and with one more at the end
Shifted(q1, q2) ==
    /\ Len(q2) = Len(q1)
    /\ \A i \in 1..(Len(q1) - 1) : q2[i] = q1[i + 1]

\* C32: every window of the monitor holds at most window_size
\* observations; recording into a full window discards the oldest one; the
\* success rate of a snapshot is the fraction of successes among the
\* observations in the window, and 100% when there is none
C32_RollingWindows ==
    /\ [](\A i \in DOMAIN Windows : Len(Windows[i]) <= window_size)
    /\ [][\A i \in DOMAIN Windows :
            (Len(Windows[i]) = window_size /\ Windows[i]' # Windows[i]) =>
               Shifted(Windows[i], Windows[i]')]_vars
    /\ [][(m_event'.op = "track" /\ Len(m_success_counts) = window_size) =>
             /\ Shifted(m_success_counts, m_success_counts')
             /\ m_success_counts'[window_size] = m_event'.success]_vars
    /\ []((m_event.op = "metrics" /\ ~m_event.raised) =>
            LET n == Len(m_success_counts)
                ok == Cardinality({i \in 1..n : m_success_counts[i] = 1})
            IN IF n = 0 THEN m_event.success_rate = <<100, 1>>
               ELSE m_event.success_rate[1] * n
                       = 100 * ok * m_event.success_rate[2])

C32_Witness ==
    /\ m_event.op = "metrics" /\ ~m_event.raised
    /\ m_tracked > window_size
    /\ Len(m_success_counts) = window_size
    /\ sum(m_success_counts) = 1

\* the job shows as failed with the timeout error
TimedOut(j) == status[j] = "failed" /\ error[j] = ErrTimeout

C34_NoEarlyReuse ==
    [][\A h \in PoolHandles :
          /\ (pool_result'.op \in {"get_proxy", "rotate_proxy"}
                 /\ pool_result'.handle = h) =>
                /\ \/ last_used[h] = NoTime
                   \/ clock - last_used[h] > ReuseInterval(pool_result'.impl)
                /\ last_used'[h] = clock'
          /\ last_used[h] # NoTime => last_used'[h] >= last_used[h]]_vars

C34_Witness ==
    \E h \in PoolHandles, c \in Callers :
       /\ pool_result.op = "get_proxy" /\ pool_result.handle = h
       /\ success_count[h] >= 1
       /\ last_used[h] = clock
       /\ gp_wake[c] # NoTime

\* C35: a report_failure for a handle that is no longer in the pool
\* completes without raising and leaves the pool unchanged
C35_ReportAfterEviction ==
    [][\A h \in PoolHandles :
          (pool_result'.op = "report_failure" /\ pool_result'.handle = h
              /\ h \notin proxies) =>
             /\ ~pool_result'.raised
             /\ proxies' = proxies]_vars

\* C36: the failures of a handle are counted over its whole life: a
\* report_success leaves fail_count as it is, no step lowers it, and the
\* report_failure that takes it to max_consecutive_fails leaves the handle
\* out of the pool, whatever the successes reported in between
C36_CumulativeCeiling ==
    /\ [][\A h \in PoolHandles :
            /\ fail_count'[h] >= fail_count[h]
            /\ Reported("report_success", h) => fail_count'[h] = fail_count[h]
            /\ Reported("report_failure", h) =>
                  /\ fail_count'[h] = fail_count[h] + 1
                  /\ fail_count'[h] >= max_consecutive_fails =>
                        h \notin proxies']_vars
    /\ [](\A h \in proxies : fail_count[h] < max_consecutive_fails)

C36_Witness ==
    \E h \in PoolHandles :
       /\ pool_result.op = "report_failure" /\ pool_result.handle = h
       /\ ~pool_result.raised
       /\ fail_count[h] = max_consecutive_fails
       /\ success_count[h] = 1
       /\ h \notin proxies

\* C37: when _execute_task has ended, the task is completed or failed, no
\* exception has left the coroutine, _cleanup_task has run exactly once and
\* the proxy the task acquired, if any, has been released
C37_TaskAlwaysCleanedUp ==
    \A t \in Tasks :
       task_pc[t] = "done" =>
          /\ task_status[t] \in {"completed", "failed"}
          /\ ~task_escaped[t]
          /\ task_cleaned[t] = 1
          /\ task_released[t] >= task_acquired[t]

\* C38: 0 <= available_tokens <= tokens in every state reached by
\* concurrent acquire(n) calls with 1 <= n <= tokens, and every call
\* returns eventually while time advances
C38_BucketBoundsAndProgress ==
    /\ [](0 <= available_tokens /\ available_tokens <= tokens)
    /\ \A c \in Callers : (tb_pc[c] = "sleeping") ~> (tb_pc[c] = "idle")

====
